---- MODULE Spec2Model ----
(***************************************************************************)
(* Sale transaction engine of MyPhone-Backend.                             *)
(*                                                                         *)
(* The committed database is the state: stock_items, sales, sale_items,    *)
(* warranties, sale_payments, the audit tables and idempotency_keys.  Each *)
(* HTTP request is a process; a request that calls an RPC runs one         *)
(* PostgreSQL transaction (READ COMMITTED): its writes are kept in tx[r]   *)
(* until the commit step merges them, a SELECT ... FOR UPDATE waits while  *)
(* another transaction holds the row, and a raised exception discards      *)
(* tx[r].  Money is counted in units of 0.01.                              *)
(***************************************************************************)
EXTENDS Integers, Sequences, FiniteSets, TLC

\* ------------------------------------------------------------------ bounds
MaxSales == 2
MaxUpdates == 1
MaxPayments == 3

\* ------------------------------------------------------------- value sets
Reqs == {"r1", "r2"}
Units == {"u1", "u2"}
Actors == {"a1", "a2"}
Keys == {"k1"}
Cancellers == {<<"a1", "dup">>, <<"a2", "err">>}
SaleIds == 1 .. MaxSales
NULL == 0
NoKey == "none"
NoText == "null"
NoId == <<NoText, NoKey>>
SaleDate == "d1"
Prices == {2}
Deposits == {NULL, 1}
LedgerDeposits == {NULL, 1, 2}
FxRates == {NULL, 3}
Tolerance == 1

VARIABLES
    stock_items,        \* [Units -> [status, sale_id, sold_at]]
    sales,              \* [subset of SaleIds -> sale row]
    sale_items,         \* set of [sale_id, stock_item_id, qty, sale_price_ars, subtotal_ars]
    warranties,         \* set of [sale_id, stock_item_id]
    sale_payments,      \* [SaleIds -> Seq([method, currency, amount])]
    audit_logs,         \* [SaleIds -> Seq(action tag)], sale_audit_logs and audit_logs
    auth_users,         \* set of user ids, the accounts of auth.users
    profiles,           \* [UserIds -> [role, full_name]], role "none" where no row exists
    profile_audit_logs, \* Seq of the audit_logs rows with entity_type 'profile'
    idempotency_keys,   \* [subset of Actors \X Keys -> [request_hash, response_status, response_body]]
    pc,                 \* [Reqs -> position of the request handler]
    req,                \* [Reqs -> the request being served / last served]
    tx,                 \* [Reqs -> uncommitted writes of the request's transaction]
    resp,               \* [Reqs -> last HTTP response sent]
    hist,               \* [Reqs -> what the request met on its way, for the properties]
    answered            \* every <<keyed request, response>> sent so far, for the properties

vars == <<stock_items, sales, sale_items, warranties, sale_payments, audit_logs,
          auth_users, profiles, profile_audit_logs,
          idempotency_keys, pc, req, tx, resp, hist, answered>>

accounts == <<auth_users, profiles, profile_audit_logs>>

db == <<stock_items, sales, sale_items, warranties, sale_payments, audit_logs, accounts>>

\* ----------------------------------------------------------------- rows
\* user ids: the two accounts the admin-users test logs in with, and the id
\* auth gives to a user created through the API
UserIds == {"mocho", "bruno", "t1"}

NoProfile == [role |-> "none", full_name |-> NoText]

\* the accounts before any request: one owner and one seller
InitialProfile(u) ==
    IF u = "mocho" THEN [role |-> "owner", full_name |-> "Mocho"]
    ELSE IF u = "bruno" THEN [role |-> "seller", full_name |-> "Bruno"]
    ELSE NoProfile

NoRow == [status |-> "none", sale_id |-> NULL, sold_at |-> NoText]

NoRpc == [error |-> "pending"]

NoSale == [status |-> "none"]

NoTx == [sale |-> NULL, saleLock |-> FALSE, idx |-> 0, row |-> NoSale,
         stock |-> [u \in Units |-> NoRow], items |-> {}, warr |-> {}, total |-> 0,
         result |-> NoRpc]

NoBody == [none |-> TRUE]

NoResp == [status |-> NULL, body |-> NoBody]

NoReq == [op |-> "none", actor |-> NoText, key |-> NoKey, sale |-> NULL,
          reason |-> NoText, payload |-> [none |-> TRUE], idempotencyId |-> NoId]

NoHist == [ranRpc |-> FALSE, raced |-> FALSE, prior |-> {}, avail |-> {}, before |-> {},
           over |-> {}, released |-> {}]

\* ------------------------------------------------------------ inputs
Item(u, q, p) == [stock_item_id |-> u, qty |-> q, sale_price_ars |-> p]

\* item lists the HTTP schema accepts: non-empty, no unit named twice
ItemLists ==
    {<<Item(u, 1, p)>> : u \in Units, p \in Prices}
    \cup {<<Item(d[1], 1, p), Item(d[2], 1, p)>> :
             d \in {e \in Units \X Units : e[1] # e[2]}, p \in Prices}

CreatePayloads == [items : ItemLists, deposit_ars : Deposits, input_total_ars : {NULL}]

\* sales paid in full at creation
FullPayments == {p \in CreatePayloads : p.deposit_ars = NULL}

\* sales of one unit, paid in full
SingleItem == {p \in FullPayments : Len(p.items) = 1}

\* ------------------------------------------------------ pure functions
\* a server total that counts the first item only
computeServerTotalFirst(items) ==
    IF items = <<>> THEN 0 ELSE Head(items).qty * Head(items).sale_price_ars

RECURSIVE computeServerTotal(_)
computeServerTotal(items) ==
    IF items = <<>> THEN 0
    ELSE Head(items).qty * Head(items).sale_price_ars + computeServerTotal(Tail(items))

Abs(x) == IF x < 0 THEN -x ELSE x

Max(a, b) == IF a >= b THEN a ELSE b

\* The fingerprint of a request: the hash of the normalized payload.
hashPayload(value) == <<"sha256", value>>

normalizeCreatePayload(payload) ==
    [items |-> payload.items, deposit_ars |-> payload.deposit_ars,
     total_ars |-> computeServerTotal(payload.items),
     input_total_ars |-> payload.input_total_ars]

\* message.includes(needle) on the messages the RPCs raise
MsgIncludes(message, needle) ==
    <<message, needle>> \in {<<"total_mismatch", "total_mismatch">>,
                             <<"not_found", "not_found">>,
                             <<"stock_unavailable", "stock_unavailable">>,
                             <<"stock_conflict", "conflict">>,
                             <<"conflict", "conflict">>,
                             <<"validation_error", "validation_error">>}

mapRpcError(message) ==
    IF MsgIncludes(message, "total_mismatch") THEN [status |-> 422, code |-> "total_mismatch"]
    ELSE IF MsgIncludes(message, "not_found") THEN [status |-> 404, code |-> "not_found"]
    ELSE IF MsgIncludes(message, "stock_unavailable") \/ MsgIncludes(message, "conflict")
         THEN [status |-> 409, code |-> "conflict"]
    ELSE IF MsgIncludes(message, "validation_error") THEN [status |-> 422, code |-> "validation_error"]
    ELSE [status |-> 400, code |-> "rpc_failed"]

makeError(code, details) == [error |-> [code |-> code, details |-> details]]

\* ------------------------------------------------------------- locks
Locks(r) == {u \in Units : tx[r].stock[u].status # "none"}

LockedByOther(r, u) == \E o \in Reqs \ {r} : u \in Locks(o)

\* a sale row that nobody is ever seen to hold
SaleLockedByNobody(r, s) == FALSE

\* select ... from public.sales where id = s for update blocks while another
\* transaction holds the row
SaleLockedByOther(r, s) == \E o \in Reqs \ {r} : tx[o].saleLock /\ tx[o].sale = s

\* what transaction r reads in stock row u once it holds the row lock
StockRead(r, u) == IF u \in Locks(r) THEN tx[r].stock[u] ELSE stock_items[u]

InFlight == {tx[o].sale : o \in Reqs}

FreshSaleIds == SaleIds \ (DOMAIN sales \cup InFlight)

ItemUnits(s) == {i.stock_item_id : i \in {j \in sale_items : j.sale_id = s}}

\* ---------------------------------------------------------------- Init
Init ==
    /\ stock_items = [u \in Units |-> [status |-> "available", sale_id |-> NULL, sold_at |-> NoText]]
    /\ sales = <<>>
    /\ sale_items = {}
    /\ warranties = {}
    /\ sale_payments = [s \in SaleIds |-> <<>>]
    /\ audit_logs = [s \in SaleIds |-> <<>>]
    /\ auth_users = {"mocho", "bruno"}
    /\ profiles = [u \in UserIds |-> InitialProfile(u)]
    /\ profile_audit_logs = <<>>
    /\ idempotency_keys = <<>>
    /\ pc = [r \in Reqs |-> "idle"]
    /\ req = [r \in Reqs |-> NoReq]
    /\ tx = [r \in Reqs |-> NoTx]
    /\ resp = [r \in Reqs |-> NoResp]
    /\ hist = [r \in Reqs |-> NoHist]
    /\ answered = {}

Idle(r) == pc[r] \in {"idle", "done"}

\* ------------------------------------------------------- payment ledger
RECURSIVE PaidArs(_, _)
PaidArs(payments, fx_rate_used) ==
    IF payments = <<>> THEN 0
    ELSE (IF Head(payments).currency = "USD"
          THEN Head(payments).amount * fx_rate_used
          ELSE Head(payments).amount)
         + PaidArs(Tail(payments), fx_rate_used)

\* a recompute that adds the amounts without converting USD
recomputeUnconverted(row, payments) ==
    LET v_paid_ars == PaidArs(payments, 1)
        v_balance_due_ars == Max(row.total_ars - v_paid_ars, 0)
    IN [row EXCEPT !.paid_ars = v_paid_ars,
                   !.balance_due_ars = v_balance_due_ars,
                   !.receivable_status = IF row.status = "cancelled" \/ v_balance_due_ars <= 0
                                         THEN "paid"
                                         ELSE IF v_paid_ars > 0 THEN "partial" ELSE "pending"]

\* the sale row as rpc_recompute_sale_receivable_v1 rewrites it
rpc_recompute_sale_receivable_v1(row, payments) ==
    LET v_paid_ars == PaidArs(payments, row.fx_rate_used)
        v_balance_due_ars == Max(row.total_ars - v_paid_ars, 0)
        v_receivable_status ==
            IF row.status = "cancelled" THEN "paid"
            ELSE IF v_balance_due_ars <= 0 THEN "paid"
            ELSE IF v_paid_ars > 0 THEN "partial"
            ELSE "pending"
    IN [row EXCEPT !.paid_ars = v_paid_ars,
                   !.balance_due_ars = v_balance_due_ars,
                   !.receivable_status = v_receivable_status]

\* ------------------------------------------------- HTTP: POST /api/sales
Signature(request) == [request EXCEPT !.idempotencyId = NoId]

\* responses already sent to a request identical to `request`
PriorResponses(request) ==
    {a[2] : a \in {b \in answered : b[1] = Signature(request)}}

\* units given back by a cancelled sale and not sold again since
Released ==
    {e \in Units \X DOMAIN sales :
        /\ sales[e[2]].status = "cancelled"
        /\ e[1] \in {i.stock_item_id : i \in {j \in sale_items : j.sale_id = e[2]}}
        /\ ~\E i \in sale_items :
              i.stock_item_id = e[1] /\ sales[i.sale_id].status = "completed"}

StartHist(request) ==
    [NoHist EXCEPT !.prior = PriorResponses(request), !.released = Released,
                   !.before = DOMAIN sales]

Reply(r, status, body) ==
    /\ pc' = [pc EXCEPT ![r] = "done"]
    /\ resp' = [resp EXCEPT ![r] = [status |-> status, body |-> body]]
    /\ answered' = IF req[r].op = "create" /\ req[r].key # NoKey
                   THEN answered \cup {<<Signature(req[r]), [status |-> status, body |-> body]>>}
                   ELSE answered

\* saleItemSchema and saleCreateSchema: qty an integer >= 1, a positive price, at
\* least one item, no stock_item_id twice
saleCreateSchema(payload) ==
    /\ Len(payload.items) >= 1
    /\ \A i \in 1 .. Len(payload.items) :
          payload.items[i].qty >= 1 /\ payload.items[i].sale_price_ars > 0
    /\ \A i, j \in 1 .. Len(payload.items) :
          i # j => payload.items[i].stock_item_id # payload.items[j].stock_item_id

\* a total check that accepts every caller total
TotalMismatchNever(input, server) == FALSE

\* a total given by the caller that is more than 0.01 away from the server's
TotalMismatch(input, server) == input # NULL /\ Abs(input - server) > Tolerance

StartCreate(r, actors, keys, payloads) ==
    /\ Idle(r)
    /\ \E actor \in actors, key \in keys, payload \in payloads :
        LET normalized == normalizeCreatePayload(payload)
            request == [NoReq EXCEPT !.op = "create", !.actor = actor, !.key = key,
                                     !.payload = normalized]
        IN /\ req' = [req EXCEPT ![r] = request]
           /\ hist' = [hist EXCEPT ![r] = StartHist(request)]
           /\ IF ~saleCreateSchema(payload)
              THEN Reply(r, 400, makeError("validation_error", "Invalid sale payload"))
              ELSE IF TotalMismatch(normalized.input_total_ars, normalized.total_ars)
              THEN Reply(r, 422, makeError("total_mismatch",
                                           <<normalized.input_total_ars, normalized.total_ars>>))
              ELSE /\ pc' = [pc EXCEPT ![r] = IF key # NoKey THEN "idem_find" ELSE "rpc_create"]
                   /\ resp' = [resp EXCEPT ![r] = NoResp]
                   /\ UNCHANGED answered
    /\ UNCHANGED <<db, idempotency_keys, tx>>

\* an answer that trusts the key without comparing the fingerprint
ExistingAnswerTrustsKey(r, existing) ==
    IF existing.response_status # NULL /\ existing.response_body # NoBody
    THEN Reply(r, existing.response_status, existing.response_body)
    ELSE Reply(r, 409, makeError("idempotency_in_progress", NoText))

\* the answer for an idempotency row that already exists
ExistingAnswer(r, existing) ==
    IF existing.request_hash # hashPayload(req[r].payload)
    THEN Reply(r, 409, makeError("idempotency_conflict", NoText))
    ELSE IF existing.response_status # NULL /\ existing.response_body # NoBody
    THEN Reply(r, existing.response_status, existing.response_body)
    ELSE Reply(r, 409, makeError("idempotency_in_progress", NoText))

IdemKey(r) == <<req[r].actor, req[r].key>>

findExisting(r) ==
    /\ pc[r] = "idem_find"
    /\ IF IdemKey(r) \in DOMAIN idempotency_keys
       THEN ExistingAnswer(r, idempotency_keys[IdemKey(r)])
       ELSE /\ pc' = [pc EXCEPT ![r] = "idem_insert"]
            /\ UNCHANGED <<resp, answered>>
    /\ UNCHANGED <<db, idempotency_keys, req, tx, hist>>

\* a reservation insert under no unique index
insertReservationNotUnique(r) ==
    /\ pc[r] = "idem_insert"
    /\ idempotency_keys' =
           [k \in DOMAIN idempotency_keys \cup {IdemKey(r)} |->
               IF k = IdemKey(r)
               THEN [request_hash |-> hashPayload(req[r].payload),
                     response_status |-> NULL, response_body |-> NoBody]
               ELSE idempotency_keys[k]]
    /\ req' = [req EXCEPT ![r].idempotencyId = IdemKey(r)]
    /\ pc' = [pc EXCEPT ![r] = "rpc_create"]
    /\ UNCHANGED <<db, tx, resp, hist, answered>>

insertReservation(r) ==
    /\ pc[r] = "idem_insert"
    /\ IF IdemKey(r) \notin DOMAIN idempotency_keys
       THEN /\ idempotency_keys' = idempotency_keys @@
                  (IdemKey(r) :> [request_hash |-> hashPayload(req[r].payload),
                                  response_status |-> NULL, response_body |-> NoBody])
            /\ req' = [req EXCEPT ![r].idempotencyId = IdemKey(r)]
            /\ pc' = [pc EXCEPT ![r] = "rpc_create"]
            /\ UNCHANGED hist
       ELSE /\ pc' = [pc EXCEPT ![r] = "idem_raced"]
            /\ hist' = [hist EXCEPT ![r].raced = TRUE]
            /\ UNCHANGED <<idempotency_keys, req>>
    /\ UNCHANGED <<db, tx, resp, answered>>

findRaced(r) ==
    /\ pc[r] = "idem_raced"
    /\ IF IdemKey(r) \in DOMAIN idempotency_keys
       THEN ExistingAnswer(r, idempotency_keys[IdemKey(r)])
       ELSE Reply(r, 400, makeError("idempotency_reserve_failed", NoText))
    /\ UNCHANGED <<db, idempotency_keys, req, tx, hist>>

\* an exception that leaves the transaction's writes in place
RaiseKeepsWrites(r, message, detail) ==
    /\ tx' = [tx EXCEPT ![r] = [NoTx EXCEPT !.result = [error |-> message, details |-> detail]]]
    /\ pc' = [pc EXCEPT ![r] = "rpc_done"]
    /\ sales' = IF tx[r].row # NoSale THEN sales @@ (tx[r].sale :> tx[r].row) ELSE sales
    /\ stock_items' = [u \in Units |-> IF u \in Locks(r) THEN tx[r].stock[u] ELSE stock_items[u]]
    /\ sale_items' = sale_items \cup tx[r].items
    /\ warranties' = warranties \cup tx[r].warr
    /\ UNCHANGED <<sale_payments, audit_logs, accounts>>

\* -------------------------------------------------- rpc_create_sale_v2
Raise(r, message, detail) ==
    /\ tx' = [tx EXCEPT ![r] = [NoTx EXCEPT !.result = [error |-> message, details |-> detail]]]
    /\ pc' = [pc EXCEPT ![r] = "rpc_done"]
    /\ UNCHANGED db

\* p_payload->>field, with the default the RPC takes when the key is absent
PayloadField(p_payload, field, default) ==
    IF field \in DOMAIN p_payload THEN p_payload[field] ELSE default

rpc_create_sale_v2_begin(r) ==
    /\ pc[r] = "rpc_create"
    /\ FreshSaleIds # {}
    /\ LET p_payload == req[r].payload
           v_server_total == computeServerTotal(p_payload.items)
           v_sale_id == CHOOSE s \in FreshSaleIds : \A t \in FreshSaleIds : s <= t
           v_payment_method == PayloadField(p_payload, "payment_method", "cash")
           v_currency == PayloadField(p_payload, "currency", "ARS")
           v_fx_rate_used == PayloadField(p_payload, "fx_rate_used", NULL)
           row == [status |-> "completed", total_ars |-> v_server_total, paid_ars |-> 0,
                   receivable_status |-> "pending", deposit_ars |-> p_payload.deposit_ars,
                   payment_method |-> v_payment_method,
                   currency |-> v_currency, fx_rate_used |-> v_fx_rate_used,
                   balance_due_ars |-> Max(v_server_total - p_payload.deposit_ars, 0),
                   cancelled_at |-> NULL, cancelled_by |-> NoText, cancel_reason |-> NoText]
           open == {o \in Reqs \ {r} : pc[o] = "create_item"}
       IN /\ hist' = [o \in Reqs |->
                 IF o = r
                 THEN [hist[r] EXCEPT
                          !.ranRpc = TRUE,
                          !.avail = {u \in Units : stock_items[u].status = "available"},
                          !.before = DOMAIN sales,
                          !.over = open]
                 ELSE IF o \in open THEN [hist[o] EXCEPT !.over = @ \cup {r}]
                 ELSE hist[o]]
          /\ IF \E i \in 1 .. Len(p_payload.items) : p_payload.items[i].qty < 1
             THEN Raise(r, "validation_error", "qty_must_be_gte_1")
             ELSE IF \E i \in 1 .. Len(p_payload.items) : p_payload.items[i].sale_price_ars <= 0
             THEN Raise(r, "validation_error", "sale_price_must_be_gt_0")
             ELSE IF TotalMismatch(p_payload.total_ars, v_server_total)
             THEN Raise(r, "total_mismatch", "input_server")
             ELSE IF v_currency = "USD" /\ v_fx_rate_used <= 0
             THEN Raise(r, "validation_error", "fx_rate_used_required_for_usd")
             ELSE /\ tx' = [tx EXCEPT ![r] = [NoTx EXCEPT !.sale = v_sale_id, !.idx = 1,
                                                          !.row = row, !.total = v_server_total]]
                  /\ pc' = [pc EXCEPT ![r] = "create_item"]
                  /\ UNCHANGED db
    /\ UNCHANGED <<answered, idempotency_keys, req, resp>>

\* a stock check that lets every unit through
UnavailableNever(v_stock) == FALSE

\* the stock check of the item loop
Unavailable(v_stock) == v_stock.status # "available"

\* an item check that accepts every quantity
QtyUnsupportedNever(v_qty) == FALSE

\* stock is serialized: a line sells one unit
QtyUnsupported(v_qty) == v_qty # 1

rpc_create_sale_v2_item(r) ==
    /\ pc[r] = "create_item"
    /\ tx[r].idx <= Len(req[r].payload.items)
    /\ LET v_item == req[r].payload.items[tx[r].idx]
           v_stock_id == v_item.stock_item_id
           v_sale_id == tx[r].sale
           v_stock == StockRead(r, v_stock_id)
       IN IF QtyUnsupported(v_item.qty)
          THEN Raise(r, "validation_error", "qty_not_supported_for_serialized_stock")
          ELSE IF v_stock_id \notin DOMAIN stock_items
          THEN Raise(r, "not_found", "stock_item_not_found")
          ELSE /\ ~LockedByOther(r, v_stock_id)
               /\ IF Unavailable(v_stock)
                  THEN Raise(r, "stock_conflict", <<v_stock_id, v_stock.status>>)
                  ELSE /\ tx' = [tx EXCEPT
                             ![r].items = @ \cup {[sale_id |-> v_sale_id,
                                                   stock_item_id |-> v_stock_id,
                                                   qty |-> v_item.qty,
                                                   sale_price_ars |-> v_item.sale_price_ars,
                                                   subtotal_ars |-> v_item.qty * v_item.sale_price_ars]},
                             ![r].stock[v_stock_id] = [status |-> "sold", sale_id |-> v_sale_id,
                                                       sold_at |-> SaleDate],
                             ![r].warr = @ \cup {[sale_id |-> v_sale_id, stock_item_id |-> v_stock_id]},
                             ![r].idx = @ + 1]
                       /\ UNCHANGED <<db, pc>>
    /\ UNCHANGED <<answered, idempotency_keys, req, resp, hist>>

\* a commit that loses the transaction's stock updates
CommitStockLost(r) == stock_items

\* stock_items once the transaction's row updates are committed
CommitStock(r) == [u \in Units |-> IF u \in Locks(r) THEN tx[r].stock[u] ELSE stock_items[u]]

\* a synthesized payment that always covers the whole total
SynthesizedAmountTotal(v_deposit_ars, v_server_total) == v_server_total

\* the amount of the one payment posted when p_payload carries no payments
SynthesizedAmount(v_deposit_ars, v_server_total) ==
    IF v_deposit_ars > 0 /\ v_deposit_ars < v_server_total
    THEN v_deposit_ars ELSE v_server_total

rpc_create_sale_v2_finish(r) ==
    /\ pc[r] = "create_item"
    /\ tx[r].idx > Len(req[r].payload.items)
    /\ LET v_sale_id == tx[r].sale
           v_server_total == tx[r].total
           v_deposit_ars == req[r].payload.deposit_ars
           v_payment_item_amount == SynthesizedAmount(v_deposit_ars, v_server_total)
           payments == <<[method |-> tx[r].row.payment_method, currency |-> tx[r].row.currency,
                          amount |-> v_payment_item_amount]>>
           row == rpc_recompute_sale_receivable_v1(tx[r].row, payments)
       IN /\ sales' = sales @@ (v_sale_id :> row)
          /\ stock_items' = CommitStock(r)
          /\ sale_items' = sale_items \cup tx[r].items
          /\ warranties' = warranties \cup tx[r].warr
          /\ sale_payments' = [sale_payments EXCEPT ![v_sale_id] = payments]
          /\ audit_logs' = [audit_logs EXCEPT ![v_sale_id] =
                 <<"created", "sale_created", "stock_state_changed",
                   "payment_registered", "warranty_status_changed">>]
          /\ tx' = [tx EXCEPT ![r] = [NoTx EXCEPT !.result =
                 [error |-> "none",
                  data |-> [sale_id |-> v_sale_id, total_ars |-> v_server_total,
                            server_total_ars |-> v_server_total, paid_ars |-> row.paid_ars,
                            receivable_status |-> row.receivable_status,
                            balance_due_ars |-> row.balance_due_ars]]]]
          /\ pc' = [pc EXCEPT ![r] = "rpc_done"]
    /\ UNCHANGED <<answered, idempotency_keys, req, resp, hist, accounts>>

\* a handler that stores no response
persistNothing(idempotencyId, status, body) == idempotency_keys

\* a handler that stores the response of a created sale only
persistOnlyCreated(idempotencyId, status, body) ==
    IF idempotencyId = NoId \/ status # 201
    THEN idempotency_keys
    ELSE [idempotency_keys EXCEPT ![idempotencyId].response_status = status,
                                  ![idempotencyId].response_body = body]

\* the handler after the RPC call returned: persistIdempotencyResult, then the answer
persistIdempotencyResult(idempotencyId, status, body) ==
    IF idempotencyId = NoId
    THEN idempotency_keys
    ELSE [idempotency_keys EXCEPT ![idempotencyId].response_status = status,
                                  ![idempotencyId].response_body = body]

CreateRespond(r) ==
    /\ pc[r] = "rpc_done"
    /\ req[r].op = "create"
    /\ LET rpc == tx[r].result
           mapped == mapRpcError(rpc.error)
           status == IF rpc.error # "none" THEN mapped.status ELSE 201
           body == IF rpc.error # "none"
                   THEN makeError(mapped.code, rpc.details)
                   ELSE [sale_id |-> rpc.data.sale_id, total_ars |-> rpc.data.total_ars,
                         server_total_ars |-> rpc.data.server_total_ars]
       IN /\ idempotency_keys' = persistIdempotencyResult(req[r].idempotencyId, status, body)
          /\ Reply(r, status, body)
    /\ tx' = [tx EXCEPT ![r] = NoTx]
    /\ UNCHANGED <<db, req, hist>>

\* an engine that never finds who a transaction waits for
WaitsForNobody(r) == {}

\* PostgreSQL's deadlock detector: r waits for a row held by o while o waits for a row
\* held by r; the detector aborts r's transaction.
WaitsFor(r) ==
    IF pc[r] \in {"create_item", "update_item"} /\ tx[r].idx <= Len(req[r].payload.items)
    THEN {o \in Reqs \ {r} : req[r].payload.items[tx[r].idx].stock_item_id \in Locks(o)}
    ELSE {}

DeadlockDetected(r) ==
    /\ \E o \in WaitsFor(r) : r \in WaitsFor(o)
    /\ Raise(r, "deadlock detected", NoText)
    /\ UNCHANGED <<answered, idempotency_keys, req, resp, hist>>

\* ---------------------------------------------- HTTP: POST /api/sales/:id/cancel
StartCancel(r, cancellers) ==
    /\ Idle(r)
    /\ \E who \in cancellers, sale \in SaleIds :
        LET request == [NoReq EXCEPT !.op = "cancel", !.actor = who[1], !.sale = sale,
                                     !.reason = who[2]]
        IN /\ req' = [req EXCEPT ![r] = request]
           /\ hist' = [hist EXCEPT ![r] = StartHist(request)]
    /\ pc' = [pc EXCEPT ![r] = "rpc_cancel"]
    /\ resp' = [resp EXCEPT ![r] = NoResp]
    /\ UNCHANGED <<db, idempotency_keys, tx, answered>>

\* -------------------------------------------------- rpc_cancel_sale_v2
RECURSIVE AuditRows(_)
AuditRows(ids) ==
    IF ids = {} THEN 0
    ELSE LET s == CHOOSE x \in ids : TRUE
         IN Len(audit_logs[s]) + AuditRows(ids \ {s})

\* now(): a logical time, later after every committed write
now == 1 + AuditRows(SaleIds)

\* a delete that leaves the sale's warranties in place
DeleteWarrantiesNone(rows, p_sale_id) == rows

\* delete from public.warranties where sale_id = p_sale_id
DeleteWarranties(rows, p_sale_id) == {w \in rows : w.sale_id # p_sale_id}

\* a cancel without the early return
AlreadyCancelledNever(v_sale) == FALSE

\* the early return for a sale that is cancelled already
AlreadyCancelled(v_sale) == v_sale.status = "cancelled"

\* a cancel that leaves the units sold
ReleasedStockKept(row) == row

\* update public.stock_items ... where id = any(v_stock_ids)
ReleasedStock(row) == [row EXCEPT !.status = "available", !.sale_id = NULL, !.sold_at = NoText]

\* a cancel that leaves the balance and the receivable status as they were
CancelledSaleKeepsBalance(v_sale, p_user_id, p_reason) ==
    [v_sale EXCEPT !.status = "cancelled", !.cancelled_at = now,
                   !.cancelled_by = p_user_id, !.cancel_reason = p_reason]

\* update public.sales ... where id = p_sale_id
CancelledSale(v_sale, p_user_id, p_reason) ==
    [v_sale EXCEPT !.status = "cancelled", !.cancelled_at = now,
                   !.cancelled_by = p_user_id, !.cancel_reason = p_reason,
                   !.balance_due_ars = 0, !.receivable_status = "paid"]

\* a cancel that does not log the removal of the warranties
CancelAuditWithoutWarranty == <<"cancelled", "stock_state_changed">>

\* the audit rows of a cancel: sale_audit_logs 'cancelled', then audit_logs
\* 'stock_state_changed' and 'warranty_status_changed'
CancelAudit == <<"cancelled", "stock_state_changed", "warranty_status_changed">>

rpc_cancel_sale_v2(r) ==
    /\ pc[r] = "rpc_cancel"
    /\ LET p_sale_id == req[r].sale
           p_reason == req[r].reason
           p_user_id == req[r].actor
       IN IF p_sale_id \notin DOMAIN sales
          THEN Raise(r, "not_found", "sale_not_found")
          ELSE /\ ~SaleLockedByOther(r, p_sale_id)
               /\ IF AlreadyCancelled(sales[p_sale_id])
                  THEN /\ tx' = [tx EXCEPT ![r] = [NoTx EXCEPT !.result =
                              [error |-> "none",
                               data |-> [sale_id |-> p_sale_id, status |-> "cancelled",
                                         already_cancelled |-> TRUE]]]]
                       /\ UNCHANGED db
                  ELSE LET v_stock_ids == ItemUnits(p_sale_id)
                       IN /\ \A u \in v_stock_ids : ~LockedByOther(r, u)
                          /\ stock_items' = [u \in Units |->
                                 IF u \in v_stock_ids
                                 THEN ReleasedStock(stock_items[u])
                                 ELSE stock_items[u]]
                          /\ warranties' = DeleteWarranties(warranties, p_sale_id)
                          /\ sales' = [sales EXCEPT ![p_sale_id] =
                                 CancelledSale(@, p_user_id, p_reason)]
                          /\ audit_logs' = [audit_logs EXCEPT ![p_sale_id] =
                                 @ \o CancelAudit]
                          /\ tx' = [tx EXCEPT ![r] = [NoTx EXCEPT !.result =
                                 [error |-> "none",
                                  data |-> [sale_id |-> p_sale_id, status |-> "cancelled"]]]]
                          /\ UNCHANGED <<sale_items, sale_payments, accounts>>
    /\ pc' = [pc EXCEPT ![r] = "rpc_done"]
    /\ hist' = [hist EXCEPT ![r].ranRpc = TRUE]
    /\ UNCHANGED <<answered, idempotency_keys, req, resp>>

CancelRespond(r) ==
    /\ pc[r] = "rpc_done"
    /\ req[r].op = "cancel"
    /\ LET rpc == tx[r].result
           mapped == mapRpcError(rpc.error)
       IN IF rpc.error # "none"
          THEN Reply(r, mapped.status, makeError(mapped.code, rpc.details))
          ELSE Reply(r, 200, [sale_id |-> rpc.data.sale_id, status |-> rpc.data.status])
    /\ tx' = [tx EXCEPT ![r] = NoTx]
    /\ UNCHANGED <<db, idempotency_keys, req, hist>>

\* ------------------------------------------------ HTTP: DELETE /api/sales/:id
\* a delete endpoint that removes the sale row
StartDeleteRemovingRow(r, actors) ==
    /\ Idle(r)
    /\ \E actor \in actors, sale \in DOMAIN sales :
        /\ req' = [req EXCEPT ![r] = [NoReq EXCEPT !.op = "delete", !.actor = actor,
                                                   !.sale = sale]]
        /\ sales' = [s \in DOMAIN sales \ {sale} |-> sales[s]]
    /\ pc' = [pc EXCEPT ![r] = "done"]
    /\ resp' = [resp EXCEPT ![r] = [status |-> 204, body |-> NoBody]]
    /\ UNCHANGED <<accounts, stock_items, sale_items, warranties, sale_payments, audit_logs,
                   idempotency_keys, tx, hist, answered>>

\* the legacy endpoint calls rpc_cancel_sale_v2 with a fixed reason
StartDelete(r, actors) ==
    /\ Idle(r)
    /\ \E actor \in actors, sale \in SaleIds :
        LET request == [NoReq EXCEPT !.op = "delete", !.actor = actor, !.sale = sale,
                                     !.reason = "legacy_delete_endpoint"]
        IN /\ req' = [req EXCEPT ![r] = request]
           /\ hist' = [hist EXCEPT ![r] = StartHist(request)]
    /\ pc' = [pc EXCEPT ![r] = "rpc_cancel"]
    /\ resp' = [resp EXCEPT ![r] = NoResp]
    /\ UNCHANGED <<db, idempotency_keys, tx, answered>>

DeleteRespond(r) ==
    /\ pc[r] = "rpc_done"
    /\ req[r].op = "delete"
    /\ LET rpc == tx[r].result
           mapped == mapRpcError(rpc.error)
       IN IF rpc.error # "none"
          THEN IF mapped.status = 404
               THEN Reply(r, 404, makeError("not_found", "Sale not found"))
               ELSE Reply(r, mapped.status, makeError(mapped.code, rpc.details))
          ELSE Reply(r, 204, NoBody)
    /\ tx' = [tx EXCEPT ![r] = NoTx]
    /\ UNCHANGED <<db, idempotency_keys, req, hist>>

\* ------------------------------------------------ HTTP: PATCH /api/sales/:id
\* a patch without items carries <<>>; the schema rejects an empty item array
PatchPayloads ==
    [items : ItemLists, deposit_ars : {NULL}, total_ars : {NULL}]
    \cup [items : {<<>>}, deposit_ars : Deposits \ {NULL}, total_ars : {NULL}]

\* patches that change the deposit only
DepositPatches == [items : {<<>>}, deposit_ars : Deposits \ {NULL}, total_ars : {NULL}]

RECURSIVE Updates(_)
Updates(ids) ==
    IF ids = {} THEN 0
    ELSE LET s == CHOOSE x \in ids : TRUE
         IN Len(SelectSeq(audit_logs[s], LAMBDA a : a = "updated")) + Updates(ids \ {s})

\* salePatchSchema: at least one field, a positive total when given, a deposit
\* >= 0 when given and, when items are given, at least one item, qty an integer
\* >= 1, a positive price, no stock_item_id twice
salePatchSchema(payload) ==
    /\ payload.items # <<>> \/ payload.deposit_ars # NULL \/ payload.total_ars # NULL
    /\ payload.total_ars # NULL => payload.total_ars > 0
    /\ payload.deposit_ars # NULL => payload.deposit_ars >= 0
    /\ \A i \in 1 .. Len(payload.items) :
          payload.items[i].qty >= 1 /\ payload.items[i].sale_price_ars > 0
    /\ \A i, j \in 1 .. Len(payload.items) :
          i # j => payload.items[i].stock_item_id # payload.items[j].stock_item_id

StartUpdate(r, actors, payloads) ==
    /\ Idle(r)
    /\ \E actor \in actors, sale \in SaleIds, payload \in payloads :
        LET request == [NoReq EXCEPT !.op = "update", !.actor = actor, !.sale = sale,
                                     !.payload = payload]
        IN /\ Updates(SaleIds) < MaxUpdates
           /\ req' = [req EXCEPT ![r] = request]
           /\ hist' = [hist EXCEPT ![r] = StartHist(request)]
           /\ IF ~salePatchSchema(payload)
              THEN Reply(r, 400, makeError("validation_error", "Invalid patch payload"))
              ELSE IF /\ payload.items # <<>>
                      /\ payload.total_ars # NULL
                      /\ Abs(computeServerTotal(payload.items) - payload.total_ars) > Tolerance
              THEN Reply(r, 422, makeError("total_mismatch",
                                           <<payload.total_ars, computeServerTotal(payload.items)>>))
              ELSE /\ pc' = [pc EXCEPT ![r] = "rpc_update"]
                   /\ resp' = [resp EXCEPT ![r] = NoResp]
                   /\ UNCHANGED answered
    /\ UNCHANGED <<db, idempotency_keys, tx>>

\* -------------------------------------------------- rpc_update_sale_v2
RECURSIVE SumSubtotals(_)
SumSubtotals(rows) ==
    IF rows = {} THEN 0
    ELSE LET row == CHOOSE x \in rows : TRUE
         IN row.subtotal_ars + SumSubtotals(rows \ {row})

\* the release of an update that leaves the former items sold
ReleasedByUpdateKept(row) == row

\* update public.stock_items set status = 'available' ... (the sale's former items)
ReleasedByUpdate(row) == [row EXCEPT !.status = "available"]

\* an update that leaves the units of the new items as it found them
ClaimedByUpdateNot(row) == row

\* update public.stock_items set status = 'sold' where id = v_stock_id
ClaimedByUpdate(row) == [row EXCEPT !.status = "sold"]

\* an update that does not look at the sale's status
UpdateOfCancelledNever(v_sale) == FALSE

\* the update refuses a cancelled sale
UpdateOfCancelled(v_sale) == v_sale.status = "cancelled"

rpc_update_sale_v2_begin(r) ==
    /\ pc[r] = "rpc_update"
    /\ LET p_sale_id == req[r].sale
           v_items == req[r].payload.items
       IN IF p_sale_id \notin DOMAIN sales
          THEN Raise(r, "not_found", "sale_not_found")
          ELSE /\ ~SaleLockedByOther(r, p_sale_id)
               /\ IF UpdateOfCancelled(sales[p_sale_id])
                  THEN Raise(r, "conflict", "sale_already_cancelled")
                  ELSE IF v_items = <<>>
                  THEN /\ tx' = [tx EXCEPT ![r] = [NoTx EXCEPT
                              !.sale = p_sale_id, !.saleLock = TRUE, !.idx = 1,
                              !.row = sales[p_sale_id],
                              !.items = {i \in sale_items : i.sale_id = p_sale_id},
                              !.warr = {w \in warranties : w.sale_id = p_sale_id},
                              !.total = SumSubtotals({i \in sale_items : i.sale_id = p_sale_id})]]
                       /\ pc' = [pc EXCEPT ![r] = "update_item"]
                       /\ UNCHANGED db
                  ELSE /\ \A u \in ItemUnits(p_sale_id) : ~LockedByOther(r, u)
                       /\ tx' = [tx EXCEPT ![r] = [NoTx EXCEPT
                              !.sale = p_sale_id, !.saleLock = TRUE, !.idx = 1,
                              !.row = sales[p_sale_id],
                              !.stock = [u \in Units |->
                                  IF u \in ItemUnits(p_sale_id)
                                  THEN ReleasedByUpdate(stock_items[u])
                                  ELSE NoRow],
                              !.total = 0]]
                       /\ pc' = [pc EXCEPT ![r] = "update_item"]
                       /\ UNCHANGED db
    /\ hist' = [hist EXCEPT ![r].ranRpc = TRUE]
    /\ UNCHANGED <<answered, idempotency_keys, req, resp>>

rpc_update_sale_v2_item(r) ==
    /\ pc[r] = "update_item"
    /\ tx[r].idx <= Len(req[r].payload.items)
    /\ LET v_item == req[r].payload.items[tx[r].idx]
           v_stock_id == v_item.stock_item_id
           p_sale_id == tx[r].sale
           v_stock == StockRead(r, v_stock_id)
           v_subtotal == v_item.qty * v_item.sale_price_ars
       IN IF v_item.qty < 1
          THEN Raise(r, "validation_error", "qty_must_be_gte_1")
          ELSE IF v_item.sale_price_ars <= 0
          THEN Raise(r, "validation_error", "sale_price_must_be_gt_0")
          ELSE IF v_item.qty # 1
          THEN Raise(r, "validation_error", "qty_not_supported_for_serialized_stock")
          ELSE IF v_stock_id \notin DOMAIN stock_items
          THEN Raise(r, "not_found", "stock_item_not_found")
          ELSE /\ ~LockedByOther(r, v_stock_id)
               /\ IF v_stock.status # "available"
                  THEN Raise(r, "stock_unavailable", <<v_stock_id, v_stock.status>>)
                  ELSE /\ tx' = [tx EXCEPT
                             ![r].total = @ + v_subtotal,
                             ![r].items = @ \cup {[sale_id |-> p_sale_id,
                                                   stock_item_id |-> v_stock_id,
                                                   qty |-> v_item.qty,
                                                   sale_price_ars |-> v_item.sale_price_ars,
                                                   subtotal_ars |-> v_subtotal]},
                             ![r].stock[v_stock_id] = ClaimedByUpdate(v_stock),
                             ![r].warr = @ \cup {[sale_id |-> p_sale_id, stock_item_id |-> v_stock_id]},
                             ![r].idx = @ + 1]
                       /\ UNCHANGED <<db, pc>>
    /\ UNCHANGED <<answered, idempotency_keys, req, resp, hist>>

rpc_update_sale_v2_finish(r) ==
    /\ pc[r] = "update_item"
    /\ tx[r].idx > Len(req[r].payload.items)
    /\ LET p_sale_id == tx[r].sale
           p_payload == req[r].payload
           v_sale == tx[r].row
           v_total_ars == tx[r].total
           v_deposit_ars == IF p_payload.deposit_ars # NULL THEN p_payload.deposit_ars
                            ELSE v_sale.deposit_ars
           v_balance_due_ars == Max(v_total_ars - v_deposit_ars, 0)
       IN IF v_total_ars <= 0
          THEN Raise(r, "validation_error", "total_ars_must_be_gt_0")
          ELSE IF p_payload.total_ars # NULL /\ Abs(p_payload.total_ars - v_total_ars) > Tolerance
          THEN Raise(r, "total_mismatch", "input_server")
          ELSE /\ sales' = [sales EXCEPT ![p_sale_id] =
                      [@ EXCEPT !.deposit_ars = v_deposit_ars, !.total_ars = v_total_ars,
                                !.balance_due_ars = v_balance_due_ars]]
               /\ stock_items' = CommitStock(r)
               /\ sale_items' = {i \in sale_items : i.sale_id # p_sale_id} \cup tx[r].items
               /\ warranties' = DeleteWarranties(warranties, p_sale_id) \cup tx[r].warr
               /\ audit_logs' = [audit_logs EXCEPT ![p_sale_id] = Append(@, "updated")]
               /\ tx' = [tx EXCEPT ![r] = [NoTx EXCEPT !.result =
                      [error |-> "none",
                       data |-> [sale_id |-> p_sale_id, total_ars |-> v_total_ars,
                                 server_total_ars |-> v_total_ars, status |-> "completed",
                                 balance_due_ars |-> v_balance_due_ars]]]]
               /\ pc' = [pc EXCEPT ![r] = "rpc_done"]
               /\ UNCHANGED <<sale_payments, accounts>>
    /\ UNCHANGED <<answered, idempotency_keys, req, resp, hist>>

UpdateRespond(r) ==
    /\ pc[r] = "rpc_done"
    /\ req[r].op = "update"
    /\ LET rpc == tx[r].result
           mapped == mapRpcError(rpc.error)
       IN IF rpc.error # "none"
          THEN Reply(r, mapped.status, makeError(mapped.code, rpc.details))
          ELSE Reply(r, 200, [sale_id |-> rpc.data.sale_id, total_ars |-> rpc.data.total_ars,
                              server_total_ars |-> rpc.data.server_total_ars,
                              status |-> rpc.data.status])
    /\ tx' = [tx EXCEPT ![r] = NoTx]
    /\ UNCHANGED <<db, idempotency_keys, req, hist>>

\* ------------------------------------------------------ specifications
\* One request at a time: every sequence of create, update and cancel.
Next ==
    \E r \in {"r1"} :
        \/ StartCreate(r, {"a1"}, {NoKey}, CreatePayloads)
        \/ rpc_create_sale_v2_begin(r)
        \/ rpc_create_sale_v2_item(r)
        \/ rpc_create_sale_v2_finish(r)
        \/ CreateRespond(r)
        \/ StartCancel(r, Cancellers)
        \/ rpc_cancel_sale_v2(r)
        \/ CancelRespond(r)
        \/ StartUpdate(r, Actors, PatchPayloads)
        \/ rpc_update_sale_v2_begin(r)
        \/ rpc_update_sale_v2_item(r)
        \/ rpc_update_sale_v2_finish(r)
        \/ UpdateRespond(r)

Spec == Init /\ [][Next]_vars

\* Two requests in flight: the engine's transactions under row locks.
ConcNext ==
    \E r \in Reqs :
        \/ StartCreate(r, {"a1"}, {NoKey}, FullPayments)
        \/ rpc_create_sale_v2_begin(r)
        \/ rpc_create_sale_v2_item(r)
        \/ rpc_create_sale_v2_finish(r)
        \/ CreateRespond(r)
        \/ StartCancel(r, {<<"a1", "dup">>})
        \/ rpc_cancel_sale_v2(r)
        \/ CancelRespond(r)
        \/ DeadlockDetected(r)

ConcSpec == Init /\ [][ConcNext]_vars

\* Two requests in flight under idempotency keys.
IdemNext ==
    \E r \in Reqs :
        \/ StartCreate(r, {"a1"}, Keys \cup {NoKey}, SingleItem)
        \/ findExisting(r)
        \/ insertReservation(r)
        \/ findRaced(r)
        \/ rpc_create_sale_v2_begin(r)
        \/ rpc_create_sale_v2_item(r)
        \/ rpc_create_sale_v2_finish(r)
        \/ CreateRespond(r)

IdemSpec == Init /\ [][IdemNext]_vars

\* One client that sends keyed and unkeyed creates and cancels, one after the other.
RetryNext ==
    \E r \in {"r1"} :
        \/ StartCreate(r, {"a1"}, Keys \cup {NoKey}, FullPayments)
        \/ findExisting(r)
        \/ insertReservation(r)
        \/ rpc_create_sale_v2_begin(r)
        \/ rpc_create_sale_v2_item(r)
        \/ rpc_create_sale_v2_finish(r)
        \/ CreateRespond(r)
        \/ StartCancel(r, {<<"a1", "dup">>})
        \/ rpc_cancel_sale_v2(r)
        \/ CancelRespond(r)

RetrySpec == Init /\ [][RetryNext]_vars

\* ------------------------------------------- direct calls of the ledger RPCs
\* p_payload of a direct rpc_create_sale_v2 call: one unit, with method, currency
\* and rate
LedgerPayloads ==
    [items : {<<Item("u1", 1, p)>> : p \in Prices}, deposit_ars : LedgerDeposits,
     total_ars : {NULL}, payment_method : {"cash", "card"},
     currency : {"ARS", "USD"}, fx_rate_used : FxRates]

StartRpcCreate(r, payloads) ==
    /\ Idle(r)
    /\ \E payload \in payloads :
        LET request == [NoReq EXCEPT !.op = "rpc_create", !.actor = "a1", !.payload = payload]
        IN /\ req' = [req EXCEPT ![r] = request]
           /\ hist' = [hist EXCEPT ![r] = StartHist(request)]
    /\ pc' = [pc EXCEPT ![r] = "rpc_create"]
    /\ resp' = [resp EXCEPT ![r] = NoResp]
    /\ UNCHANGED <<db, idempotency_keys, tx, answered>>

\* p_payload of rpc_register_sale_payment_v1 and of rpc_settle_sale_v1
PaymentPayloads == [method : {"cash"}, currency : {"ARS", "USD"}, amount : {1}]

SettlePayloads == [method : {"transfer", "card"}, currency : {"ARS", "USD"}]

\* the ledger call a client starts: register, settle or recompute
StartLedger(r, op, payloads) ==
    /\ Idle(r)
    /\ \E sale \in SaleIds, payload \in payloads :
        LET request == [NoReq EXCEPT !.op = op, !.actor = "a1", !.sale = sale,
                                     !.payload = payload]
        IN /\ sale \in DOMAIN sales /\ op # "recompute" =>
                 \/ Len(sale_payments[sale]) < MaxPayments
                 \/ /\ op = "settle"
                    /\ rpc_recompute_sale_receivable_v1(sales[sale],
                                                        sale_payments[sale]).balance_due_ars <= 0
           /\ req' = [req EXCEPT ![r] = request]
           /\ hist' = [hist EXCEPT ![r] = StartHist(request)]
    /\ pc' = [pc EXCEPT ![r] = "rpc_" \o op]
    /\ resp' = [resp EXCEPT ![r] = NoResp]
    /\ UNCHANGED <<db, idempotency_keys, tx, answered>>

Receivable(p_sale_id, payment_id, row) ==
    [error |-> "none",
     data |-> [sale_id |-> p_sale_id, payment_id |-> payment_id, paid_ars |-> row.paid_ars,
               balance_due_ars |-> row.balance_due_ars,
               receivable_status |-> row.receivable_status]]

\* an insert that takes the place of the sale's earlier payment rows
InsertPaymentReplacing(payments, row) == <<row>>

\* insert into public.sale_payments: one more row of the sale, the others untouched
InsertPayment(payments, row) == Append(payments, row)

\* rpc_register_sale_payment_v1 after the status check: validate, insert, recompute
PostPayment(r, p_sale_id, p_payload) ==
    IF p_payload.method \notin {"cash", "transfer", "card", "mixed", "trade_in"}
    THEN Raise(r, "validation_error", "invalid_payment_method")
    ELSE IF p_payload.currency \notin {"ARS", "USD"}
    THEN Raise(r, "validation_error", "invalid_currency")
    ELSE IF p_payload.amount <= 0
    THEN Raise(r, "validation_error", "payment_amount_must_be_gt_0")
    ELSE LET payments == InsertPayment(sale_payments[p_sale_id],
                                [method |-> p_payload.method, currency |-> p_payload.currency,
                                 amount |-> p_payload.amount])
             row == rpc_recompute_sale_receivable_v1(sales[p_sale_id], payments)
         IN /\ sale_payments' = [sale_payments EXCEPT ![p_sale_id] = payments]
            /\ sales' = [sales EXCEPT ![p_sale_id] = row]
            /\ audit_logs' = [audit_logs EXCEPT ![p_sale_id] = Append(@, "payment_registered")]
            /\ tx' = [tx EXCEPT ![r] = [NoTx EXCEPT !.result =
                          Receivable(p_sale_id, Len(payments), row)]]
            /\ pc' = [pc EXCEPT ![r] = "rpc_done"]
            /\ UNCHANGED <<stock_items, sale_items, warranties, accounts>>

\* the body of rpc_register_sale_payment_v1 once the sale row is locked
RegisterPayment(r, p_sale_id, p_payload) ==
    IF sales[p_sale_id].status = "cancelled"
    THEN Raise(r, "conflict", "sale_cancelled")
    ELSE PostPayment(r, p_sale_id, p_payload)

rpc_register_sale_payment_v1(r) ==
    /\ pc[r] = "rpc_register"
    /\ IF req[r].sale \notin DOMAIN sales
       THEN Raise(r, "not_found", "sale_not_found")
       ELSE /\ ~SaleLockedByOther(r, req[r].sale)
            /\ RegisterPayment(r, req[r].sale, req[r].payload)
    /\ hist' = [hist EXCEPT ![r].ranRpc = TRUE]
    /\ UNCHANGED <<answered, idempotency_keys, req, resp>>

\* rpc_register_sale_payment_v1 statement by statement, for interleavings with
\* other transactions: first select ... from public.sales ... for update and
\* the status check
rpc_register_sale_payment_v1_lock(r) ==
    /\ pc[r] = "rpc_register"
    /\ IF req[r].sale \notin DOMAIN sales
       THEN Raise(r, "not_found", "sale_not_found")
       ELSE /\ ~SaleLockedByOther(r, req[r].sale)
            /\ IF sales[req[r].sale].status = "cancelled"
               THEN Raise(r, "conflict", "sale_cancelled")
               ELSE /\ tx' = [tx EXCEPT ![r] = [NoTx EXCEPT !.sale = req[r].sale,
                                                            !.saleLock = TRUE,
                                                            !.row = sales[req[r].sale]]]
                    /\ pc' = [pc EXCEPT ![r] = "register_post"]
                    /\ UNCHANGED db
    /\ hist' = [hist EXCEPT ![r].ranRpc = TRUE]
    /\ UNCHANGED <<answered, idempotency_keys, req, resp>>

\* then the payload checks, the insert and the recompute, under the lock taken
rpc_register_sale_payment_v1_post(r) ==
    /\ pc[r] = "register_post"
    /\ PostPayment(r, req[r].sale, req[r].payload)
    /\ UNCHANGED <<answered, idempotency_keys, req, resp, hist>>

\* a settle that never takes the early return
NothingDueNever(v_balance_due_ars) == FALSE

\* the early return of a settle that finds nothing outstanding
NothingDue(v_balance_due_ars) == v_balance_due_ars <= 0

rpc_settle_sale_v1(r) ==
    /\ pc[r] = "rpc_settle"
    /\ LET p_sale_id == req[r].sale
           p_payload == req[r].payload
       IN IF p_sale_id \notin DOMAIN sales
          THEN Raise(r, "not_found", "sale_not_found")
          ELSE /\ ~SaleLockedByOther(r, p_sale_id)
               /\ IF sales[p_sale_id].status = "cancelled"
                  THEN Raise(r, "conflict", "sale_cancelled")
                  ELSE LET v_receivable == rpc_recompute_sale_receivable_v1(
                                               sales[p_sale_id], sale_payments[p_sale_id])
                           v_balance_due_ars == v_receivable.balance_due_ars
                           payments == InsertPayment(sale_payments[p_sale_id],
                                              [method |-> p_payload.method,
                                               currency |-> p_payload.currency,
                                               amount |-> v_balance_due_ars])
                           row == rpc_recompute_sale_receivable_v1(v_receivable, payments)
                       IN IF NothingDue(v_balance_due_ars)
                          THEN /\ sales' = [sales EXCEPT ![p_sale_id] = v_receivable]
                               /\ tx' = [tx EXCEPT ![r] = [NoTx EXCEPT !.result =
                                      [error |-> "none",
                                       data |-> [sale_id |-> p_sale_id, payment_id |-> NULL,
                                                 paid_ars |-> v_receivable.paid_ars,
                                                 balance_due_ars |-> 0,
                                                 receivable_status |-> "paid"]]]]
                               /\ pc' = [pc EXCEPT ![r] = "rpc_done"]
                               /\ UNCHANGED <<accounts, stock_items, sale_items, warranties,
                                              sale_payments, audit_logs>>
                          ELSE IF p_payload.method \notin
                                      {"cash", "transfer", "card", "mixed", "trade_in"}
                          THEN Raise(r, "validation_error", "invalid_payment_method")
                          ELSE IF p_payload.currency \notin {"ARS", "USD"}
                          THEN Raise(r, "validation_error", "invalid_currency")
                          ELSE IF v_balance_due_ars <= 0
                          THEN Raise(r, "validation_error", "payment_amount_must_be_gt_0")
                          ELSE /\ sale_payments' = [sale_payments EXCEPT ![p_sale_id] = payments]
                               /\ sales' = [sales EXCEPT ![p_sale_id] = row]
                               /\ audit_logs' = [audit_logs EXCEPT ![p_sale_id] =
                                      Append(@, "payment_registered")]
                               /\ tx' = [tx EXCEPT ![r] = [NoTx EXCEPT !.result =
                                      Receivable(p_sale_id, Len(payments), row)]]
                               /\ pc' = [pc EXCEPT ![r] = "rpc_done"]
                               /\ UNCHANGED <<stock_items, sale_items, warranties, accounts>>
    /\ hist' = [hist EXCEPT ![r].ranRpc = TRUE]
    /\ UNCHANGED <<answered, idempotency_keys, req, resp>>

\* a direct call of rpc_recompute_sale_receivable_v1
Recompute(r) ==
    /\ pc[r] = "rpc_recompute"
    /\ LET p_sale_id == req[r].sale
       IN IF p_sale_id \notin DOMAIN sales
          THEN Raise(r, "not_found", "sale_not_found")
          ELSE /\ ~SaleLockedByOther(r, p_sale_id)
               /\ LET row == rpc_recompute_sale_receivable_v1(sales[p_sale_id],
                                                              sale_payments[p_sale_id])
                  IN /\ sales' = [sales EXCEPT ![p_sale_id] = row]
                     /\ tx' = [tx EXCEPT ![r] = [NoTx EXCEPT !.result =
                            Receivable(p_sale_id, NULL, row)]]
                     /\ pc' = [pc EXCEPT ![r] = "rpc_done"]
                     /\ UNCHANGED <<accounts, stock_items, sale_items, warranties, sale_payments,
                                    audit_logs>>
    /\ hist' = [hist EXCEPT ![r].ranRpc = TRUE]
    /\ UNCHANGED <<answered, idempotency_keys, req, resp>>

\* the RPC's result handed to a direct caller
RpcReturn(r) ==
    /\ pc[r] = "rpc_done"
    /\ req[r].op \in {"rpc_create", "rpc_update", "register", "settle", "recompute"}
    /\ pc' = [pc EXCEPT ![r] = "done"]
    /\ resp' = [resp EXCEPT ![r] = [status |-> NULL, body |-> tx[r].result]]
    /\ tx' = [tx EXCEPT ![r] = NoTx]
    /\ UNCHANGED <<db, idempotency_keys, req, hist, answered>>

\* One client on the ledger of one sale: direct create with method, currency and
\* rate, register payment, settle, recompute, and update of the deposit.
LedgerNext ==
    \E r \in {"r1"} :
        \/ StartRpcCreate(r, LedgerPayloads)
        \/ rpc_create_sale_v2_begin(r)
        \/ rpc_create_sale_v2_item(r)
        \/ rpc_create_sale_v2_finish(r)
        \/ StartLedger(r, "register", PaymentPayloads)
        \/ rpc_register_sale_payment_v1(r)
        \/ StartLedger(r, "settle", SettlePayloads)
        \/ rpc_settle_sale_v1(r)
        \/ StartLedger(r, "recompute", {[none |-> TRUE]})
        \/ Recompute(r)
        \/ RpcReturn(r)
        \/ StartUpdate(r, {"a1"}, DepositPatches)
        \/ rpc_update_sale_v2_begin(r)
        \/ rpc_update_sale_v2_finish(r)
        \/ UpdateRespond(r)

LedgerSpec == Init /\ [][LedgerNext]_vars

ArsPayments == {p \in PaymentPayloads : p.currency = "ARS"}

ArsSettles == {p \in SettlePayloads : p.currency = "ARS" /\ p.method = "transfer"}

\* One client over the whole life of a sale: create, cancel, then update,
\* register payment, settle and recompute on live and on cancelled sales.
TerminalNext ==
    \E r \in {"r1"} :
        \/ StartCreate(r, {"a1"}, {NoKey}, SingleItem)
        \/ rpc_create_sale_v2_begin(r)
        \/ rpc_create_sale_v2_item(r)
        \/ rpc_create_sale_v2_finish(r)
        \/ CreateRespond(r)
        \/ StartCancel(r, {<<"a1", "dup">>})
        \/ rpc_cancel_sale_v2(r)
        \/ CancelRespond(r)
        \/ StartUpdate(r, {"a1"}, DepositPatches)
        \/ rpc_update_sale_v2_begin(r)
        \/ rpc_update_sale_v2_finish(r)
        \/ UpdateRespond(r)
        \/ StartLedger(r, "register", ArsPayments)
        \/ rpc_register_sale_payment_v1(r)
        \/ StartLedger(r, "settle", ArsSettles)
        \/ rpc_settle_sale_v1(r)
        \/ StartLedger(r, "recompute", {[none |-> TRUE]})
        \/ Recompute(r)
        \/ RpcReturn(r)

TerminalSpec == Init /\ [][TerminalNext]_vars

\* Two clients that send creates under a key, with fair progress of every handler:
\* each awaited call returns and its continuation runs.
IdemLiveNext ==
    \E r \in Reqs :
        \/ StartCreate(r, Actors, Keys, SingleItem)
        \/ findExisting(r)
        \/ insertReservation(r)
        \/ findRaced(r)
        \/ rpc_create_sale_v2_begin(r)
        \/ rpc_create_sale_v2_item(r)
        \/ rpc_create_sale_v2_finish(r)
        \/ CreateRespond(r)

\* the steps of r's handler after the request arrived
HandlerStep(r) ==
    \/ findExisting(r)
    \/ insertReservation(r)
    \/ findRaced(r)
    \/ rpc_create_sale_v2_begin(r)
    \/ rpc_create_sale_v2_item(r)
    \/ rpc_create_sale_v2_finish(r)
    \/ CreateRespond(r)

IdemLiveSpec ==
    Init /\ [][IdemLiveNext]_vars /\ \A r \in Reqs : WF_vars(HandlerStep(r))

\* One client using every operation that reads or writes a sale's payments:
\* create, register payment, settle, recompute, update of the deposit or of
\* the items, and cancel.
PaymentsNext ==
    \E r \in {"r1"} :
        \/ StartCreate(r, {"a1"}, {NoKey}, SingleItem)
        \/ rpc_create_sale_v2_begin(r)
        \/ rpc_create_sale_v2_item(r)
        \/ rpc_create_sale_v2_finish(r)
        \/ CreateRespond(r)
        \/ StartCancel(r, {<<"a1", "dup">>})
        \/ rpc_cancel_sale_v2(r)
        \/ CancelRespond(r)
        \/ StartUpdate(r, {"a1"}, PatchPayloads)
        \/ rpc_update_sale_v2_begin(r)
        \/ rpc_update_sale_v2_item(r)
        \/ rpc_update_sale_v2_finish(r)
        \/ UpdateRespond(r)
        \/ StartLedger(r, "register", ArsPayments)
        \/ rpc_register_sale_payment_v1(r)
        \/ StartLedger(r, "settle", ArsSettles)
        \/ rpc_settle_sale_v1(r)
        \/ StartLedger(r, "recompute", {[none |-> TRUE]})
        \/ Recompute(r)
        \/ RpcReturn(r)

PaymentsSpec == Init /\ [][PaymentsNext]_vars

\* One client creating, updating, cancelling and deleting sales.
DeleteNext ==
    \E r \in {"r1"} :
        \/ StartCreate(r, {"a1"}, {NoKey}, SingleItem)
        \/ rpc_create_sale_v2_begin(r)
        \/ rpc_create_sale_v2_item(r)
        \/ rpc_create_sale_v2_finish(r)
        \/ CreateRespond(r)
        \/ StartCancel(r, {<<"a1", "dup">>})
        \/ StartDelete(r, {"a2"})
        \/ rpc_cancel_sale_v2(r)
        \/ CancelRespond(r)
        \/ DeleteRespond(r)
        \/ StartUpdate(r, {"a1"}, PatchPayloads)
        \/ rpc_update_sale_v2_begin(r)
        \/ rpc_update_sale_v2_item(r)
        \/ rpc_update_sale_v2_finish(r)
        \/ UpdateRespond(r)

DeleteSpec == Init /\ [][DeleteNext]_vars

\* patches that replace the items by both units, in either order
ItemPatches == {p \in PatchPayloads : Len(p.items) = 2}

\* a create arrives while a sale id is left for it and for every create that
\* has not taken its id yet
StartCreateWithinIds(r, payloads) ==
    /\ Cardinality(FreshSaleIds) > Cardinality({o \in Reqs : pc[o] = "rpc_create"})
    /\ StartCreate(r, {"a1"}, {NoKey}, payloads)

\* Two clients whose creates and item-replacing updates share stock units, in
\* the same and in opposite orders, under row locks and the deadlock detector.
LockNext ==
    \E r \in Reqs :
        \/ StartCreateWithinIds(r, FullPayments)
        \/ rpc_create_sale_v2_begin(r)
        \/ rpc_create_sale_v2_item(r)
        \/ rpc_create_sale_v2_finish(r)
        \/ CreateRespond(r)
        \/ StartUpdate(r, {"a1"}, ItemPatches)
        \/ rpc_update_sale_v2_begin(r)
        \/ rpc_update_sale_v2_item(r)
        \/ rpc_update_sale_v2_finish(r)
        \/ UpdateRespond(r)
        \/ DeadlockDetected(r)

\* the statements of r's transaction: each runs once the row it needs is free
TransactionStep(r) ==
    \/ rpc_create_sale_v2_begin(r)
    \/ rpc_create_sale_v2_item(r)
    \/ rpc_create_sale_v2_finish(r)
    \/ rpc_update_sale_v2_begin(r)
    \/ rpc_update_sale_v2_item(r)
    \/ rpc_update_sale_v2_finish(r)

\* The engine runs every transaction on: a statement whose row is free again
\* and again is served (lock waiters queue), and a cycle of waiters is detected.
LockSpec ==
    /\ Init /\ [][LockNext]_vars
    /\ \A r \in Reqs : SF_vars(TransactionStep(r)) /\ WF_vars(DeadlockDetected(r))

\* ------------------------------------------------ the request fingerprint
\* JavaScript values as the handler sees them: an object keeps its entries in
\* insertion order
JsNumber(n) == [type |-> "number", n |-> n]

JsString(s) == [type |-> "string", s |-> s]

JsArray(items) == [type |-> "array", items |-> items]

JsObject(entries) == [type |-> "object", entries |-> entries]

\* the keys of the payloads, in the order of String.prototype.localeCompare
KeyOrder == <<"items", "qty", "sale_price_ars", "stock_item_id", "total_ars">>

localeCompare(a, b) ==
    LET rank(k) == CHOOSE i \in 1 .. Len(KeyOrder) : KeyOrder[i] = k
    IN rank(a) - rank(b)

\* JSON.stringify of a number, as text
NumberText(n) == <<"0", "1", "2", "3", "4", "5", "6", "7", "8", "9">>[n + 1]

\* JSON.stringify of a string or of a number: the characters written
JsonStringify(value) ==
    IF value.type = "string" THEN <<"\"", value.s, "\"">> ELSE <<NumberText(value.n)>>

\* Array.prototype.sort with the comparator of stableStringify
RECURSIVE SortEntries(_)
SortEntries(entries) ==
    IF entries = <<>> THEN <<>>
    ELSE LET first == CHOOSE i \in 1 .. Len(entries) :
                 \A j \in 1 .. Len(entries) :
                     localeCompare(entries[i][1], entries[j][1]) <= 0
             rest == [k \in 1 .. Len(entries) - 1 |->
                         IF k < first THEN entries[k] ELSE entries[k + 1]]
         IN <<entries[first]>> \o SortEntries(rest)

RECURSIVE stableStringify(_)
RECURSIVE JoinItems(_)
RECURSIVE JoinEntries(_)

\* value.map(stableStringify).join(',')
JoinItems(items) ==
    IF items = <<>> THEN <<>>
    ELSE stableStringify(Head(items))
         \o (IF Tail(items) = <<>> THEN <<>> ELSE <<",">> \o JoinItems(Tail(items)))

\* entries.map(([key, entryValue]) => JSON.stringify(key):stableStringify(entryValue)).join(',')
JoinEntries(entries) ==
    IF entries = <<>> THEN <<>>
    ELSE JsonStringify(JsString(Head(entries)[1])) \o <<":">> \o stableStringify(Head(entries)[2])
         \o (IF Tail(entries) = <<>> THEN <<>> ELSE <<",">> \o JoinEntries(Tail(entries)))

\* a stringify that writes the entries in the order the object lists them
stableStringifyUnsorted(value) ==
    IF value.type \notin {"object", "array"} THEN JsonStringify(value)
    ELSE IF value.type = "array" THEN <<"[">> \o JoinItems(value.items) \o <<"]">>
    ELSE <<"{">> \o JoinEntries(value.entries) \o <<"}">>

\* the text stableStringify returns, as the sequence of its pieces
stableStringify(value) ==
    IF value.type \notin {"object", "array"} THEN JsonStringify(value)
    ELSE IF value.type = "array" THEN <<"[">> \o JoinItems(value.items) \o <<"]">>
    ELSE <<"{">> \o JoinEntries(SortEntries(value.entries)) \o <<"}">>

\* the digest of a text: equal texts give equal digests
sha256(text) == <<"sha256", text>>

\* the orders in which an object can list three entries
Orders3 == {<<1, 2, 3>>, <<1, 3, 2>>, <<2, 1, 3>>, <<2, 3, 1>>, <<3, 1, 2>>, <<3, 2, 1>>}

\* one item {stock_item_id, qty, sale_price_ars}, its keys in any order
JsItems ==
    {JsObject([k \in 1 .. 3 |->
                  <<<<"stock_item_id", JsString(u)>>, <<"qty", JsNumber(1)>>,
                    <<"sale_price_ars", JsNumber(p)>>>>[o[k]]]) :
         u \in Units, p \in Prices, o \in Orders3}

JsItemArrays ==
    {<<i>> : i \in JsItems}
    \cup {<<i, j>> : i \in {x \in JsItems : x.entries[1][1] = "qty"},
                     j \in {x \in JsItems : x.entries[3][1] # "qty"}}

\* normalized payloads {items, total_ars}, the keys in either order
JsPayloads ==
    {JsObject(<<<<"items", JsArray(a)>>, <<"total_ars", JsNumber(2 * Len(a))>>>>) :
         a \in JsItemArrays}
    \cup {JsObject(<<<<"total_ars", JsNumber(2 * Len(a))>>, <<"items", JsArray(a)>>>>) :
              a \in JsItemArrays}

\* a request whose normalized payload is about to be fingerprinted
StartFingerprint(r, payloads) ==
    /\ Idle(r)
    /\ \E payload \in payloads :
          req' = [req EXCEPT ![r] = [NoReq EXCEPT !.op = "fingerprint", !.payload = payload]]
    /\ pc' = [pc EXCEPT ![r] = "fingerprint"]
    /\ resp' = [resp EXCEPT ![r] = NoResp]
    /\ UNCHANGED <<db, idempotency_keys, tx, hist, answered>>

\* const requestHash = hashPayload(normalized)
Fingerprint(r) ==
    /\ pc[r] = "fingerprint"
    /\ resp' = [resp EXCEPT ![r] =
           [status |-> NULL,
            body |-> [text |-> stableStringify(req[r].payload),
                      requestHash |-> sha256(stableStringify(req[r].payload))]]]
    /\ pc' = [pc EXCEPT ![r] = "done"]
    /\ UNCHANGED <<db, idempotency_keys, req, tx, hist, answered>>

\* Two requests whose payloads are fingerprinted, to be compared.
FingerprintNext ==
    \E r \in Reqs :
        \/ StartFingerprint(r, JsPayloads)
        \/ Fingerprint(r)

FingerprintSpec == Init /\ [][FingerprintNext]_vars

\* ----------------------------------------------- creates with flawed input
\* a well-formed id that no stock row carries
MissingUnit == "u9"

InputQtys == {0, 1, 2}

InputTotals == {NULL, 2, 3, 4, 7}

InputItemLists ==
    {<<Item(u, q, p)>> : u \in Units \cup {MissingUnit}, q \in InputQtys, p \in Prices}
    \cup {<<Item(d[1], q[1], p), Item(d[2], q[2], p)>> :
             d \in {e \in (Units \cup {MissingUnit}) \X (Units \cup {MissingUnit}) : e[1] # e[2]},
             q \in InputQtys \X InputQtys, p \in Prices}

InputPayloads == [items : InputItemLists, deposit_ars : {NULL}, input_total_ars : InputTotals]

\* One client that posts creates with any quantity, any caller total and units
\* that may be missing or already sold.
InputNext ==
    \E r \in {"r1"} :
        \/ StartCreate(r, {"a1"}, {NoKey}, InputPayloads)
        \/ rpc_create_sale_v2_begin(r)
        \/ rpc_create_sale_v2_item(r)
        \/ rpc_create_sale_v2_finish(r)
        \/ CreateRespond(r)

InputSpec == Init /\ [][InputNext]_vars

\* patches that replace the items by one unit
SingleItemPatches == {p \in PatchPayloads : Len(p.items) = 1}

\* Two clients on the same sales: one creates and cancels while the other
\* registers payments, settles and updates, each transaction holding the sale
\* row from its first statement to its end.
SaleLockNext ==
    \/ \E r \in {"r1"} :
           \/ StartCreate(r, {"a1"}, {NoKey}, SingleItem)
           \/ rpc_create_sale_v2_begin(r)
           \/ rpc_create_sale_v2_item(r)
           \/ rpc_create_sale_v2_finish(r)
           \/ CreateRespond(r)
           \/ StartCancel(r, {<<"a1", "dup">>})
           \/ rpc_cancel_sale_v2(r)
           \/ CancelRespond(r)
    \/ \E r \in {"r2"} :
           \/ StartUpdate(r, {"a2"}, SingleItemPatches)
           \/ rpc_update_sale_v2_begin(r)
           \/ rpc_update_sale_v2_item(r)
           \/ rpc_update_sale_v2_finish(r)
           \/ UpdateRespond(r)
           \/ StartLedger(r, "register", ArsPayments)
           \/ rpc_register_sale_payment_v1_lock(r)
           \/ rpc_register_sale_payment_v1_post(r)
           \/ StartLedger(r, "settle", ArsSettles)
           \/ rpc_settle_sale_v1(r)
           \/ RpcReturn(r)

SaleLockSpec == Init /\ [][SaleLockNext]_vars

\* ---------------------------------------------- updates with flawed input
UpdateQtys == {1, 2}

UpdateTotals == {NULL, 2, 4, 7}

UpdateItemLists ==
    {<<Item(u, q, p)>> : u \in Units \cup {MissingUnit}, q \in UpdateQtys, p \in Prices}
    \cup {<<Item(d[1], q[1], p), Item(d[2], q[2], p)>> :
             d \in {e \in (Units \cup {MissingUnit}) \X (Units \cup {MissingUnit}) : e[1] # e[2]},
             q \in UpdateQtys \X UpdateQtys, p \in Prices}

\* patches that replace the items, with any quantity and any caller total
UpdateInputPatches == [items : UpdateItemLists, deposit_ars : {NULL}, total_ars : UpdateTotals]

\* rpc_update_sale_v2 called with a payload that did not pass the handler
StartRpcUpdate(r, payloads) ==
    /\ Idle(r)
    /\ \E sale \in SaleIds, payload \in payloads :
        LET request == [NoReq EXCEPT !.op = "rpc_update", !.actor = "a1", !.sale = sale,
                                     !.payload = payload]
        IN /\ Updates(SaleIds) < MaxUpdates
           /\ req' = [req EXCEPT ![r] = request]
           /\ hist' = [hist EXCEPT ![r] = StartHist(request)]
    /\ pc' = [pc EXCEPT ![r] = "rpc_update"]
    /\ resp' = [resp EXCEPT ![r] = NoResp]
    /\ UNCHANGED <<db, idempotency_keys, tx, answered>>

\* One client that creates sales and replaces their items with units that may
\* be missing or sold, quantities that may not be 1 and totals that may be off.
UpdateInputNext ==
    \E r \in {"r1"} :
        \/ StartCreate(r, {"a1"}, {NoKey}, FullPayments)
        \/ rpc_create_sale_v2_begin(r)
        \/ rpc_create_sale_v2_item(r)
        \/ rpc_create_sale_v2_finish(r)
        \/ CreateRespond(r)
        \/ StartUpdate(r, {"a1"}, UpdateInputPatches)
        \/ StartRpcUpdate(r, UpdateInputPatches)
        \/ rpc_update_sale_v2_begin(r)
        \/ rpc_update_sale_v2_item(r)
        \/ rpc_update_sale_v2_finish(r)
        \/ UpdateRespond(r)
        \/ RpcReturn(r)

UpdateInputSpec == Init /\ [][UpdateInputNext]_vars

\* ------------------------------------------------------------ properties
CompletedSalesOf(u) ==
    {s \in DOMAIN sales :
        sales[s].status = "completed" /\ \E i \in sale_items : i.sale_id = s /\ i.stock_item_id = u}

\* C2: for every stock unit, status = sold exactly when its sale reference is set
\* and points to a sale that is not cancelled, after any sequence of create,
\* update and cancel.
C2_SoldIffSaleRef ==
    \A u \in Units :
        (stock_items[u].status = "sold") <=>
            /\ stock_items[u].sale_id # NULL
            /\ stock_items[u].sale_id \in DOMAIN sales
            /\ sales[stock_items[u].sale_id].status # "cancelled"

\* C3: no unit is a line item of two completed sales, every item of a completed
\* sale is sold, and every sold unit is an item of exactly one completed sale.
C3_OneCompletedSalePerUnit ==
    \A u \in Units :
        /\ Cardinality(CompletedSalesOf(u)) <= 1
        /\ CompletedSalesOf(u) # {} => stock_items[u].status = "sold"
        /\ stock_items[u].status = "sold" => Cardinality(CompletedSalesOf(u)) = 1

\* a sale whose items were replaced holds a unit while another sale was cancelled
C3_Witness ==
    \E s \in DOMAIN sales, t \in DOMAIN sales, u \in Units :
        /\ sales[s].status = "completed" /\ sales[t].status = "cancelled"
        /\ Updates({s}) = 1
        /\ CompletedSalesOf(u) = {s}
        /\ stock_items[u].status = "sold"

NamedUnits(r) == {req[r].payload.items[i].stock_item_id : i \in 1 .. Len(req[r].payload.items)}

\* a and b name their common units in the same order
SameOrder(a, b) ==
    \A i, j \in 1 .. Len(req[a].payload.items), k, l \in 1 .. Len(req[b].payload.items) :
        /\ req[a].payload.items[i].stock_item_id = req[b].payload.items[k].stock_item_id
        /\ req[a].payload.items[j].stock_item_id = req[b].payload.items[l].stock_item_id
        /\ i < j
        => k < l

\* a and b are answered creates whose transactions overlapped, that name a common
\* unit, and every unit they name was available when each began
ContendedCreates(a, b) ==
    /\ a # b
    /\ pc[a] = "done" /\ pc[b] = "done"
    /\ req[a].op = "create" /\ req[b].op = "create"
    /\ hist[a].ranRpc /\ hist[b].ranRpc
    /\ b \in hist[a].over /\ a \in hist[b].over
    /\ NamedUnits(a) \cap NamedUnits(b) # {}
    /\ NamedUnits(a) \cup NamedUnits(b) \subseteq hist[a].avail \cap hist[b].avail
    /\ SameOrder(a, b)

StockConflictOn(response, units) ==
    /\ response.status = 409
    /\ \E u \in units : response.body = makeError("conflict", <<u, "sold">>)

CancelStep(r) == pc[r] = "rpc_cancel" /\ pc'[r] = "rpc_done" /\ req[r].sale \in DOMAIN sales

\* C8: after cancel succeeds on a completed sale every unit among its items is
\* available with sale reference and sold-at cleared, the sale has no warranty
\* left, its status is cancelled with the reason, the actor and the time, its
\* balance due is 0 and its receivable status is paid.
C8_CancelReleases ==
    [][\A r \in Reqs :
          CancelStep(r) /\ sales[req[r].sale].status = "completed" =>
              LET s == req[r].sale
              IN /\ tx'[r].result = [error |-> "none",
                                     data |-> [sale_id |-> s, status |-> "cancelled"]]
                 /\ \A u \in ItemUnits(s) :
                       stock_items'[u] = [status |-> "available", sale_id |-> NULL,
                                          sold_at |-> NoText]
                 /\ ~\E w \in warranties' : w.sale_id = s
                 /\ sales'[s].status = "cancelled"
                 /\ sales'[s].cancel_reason = req[r].reason
                 /\ sales'[s].cancelled_by = req[r].actor
                 /\ sales'[s].cancelled_at = now
                 /\ sales'[s].balance_due_ars = 0
                 /\ sales'[s].receivable_status = "paid"]_vars

\* a sale with a deposit only, hence a balance due, was cancelled by the second actor
C8_Witness ==
    \E r \in Reqs :
        /\ pc[r] = "rpc_done" /\ req[r].op = "cancel" /\ req[r].sale \in DOMAIN sales
        /\ tx[r].result = [error |-> "none",
                           data |-> [sale_id |-> req[r].sale, status |-> "cancelled"]]
        /\ sales[req[r].sale].paid_ars < sales[req[r].sale].total_ars
        /\ sales[req[r].sale].cancelled_by = "a2"
        /\ ItemUnits(req[r].sale) # {}

\* C9: cancel on a sale that is cancelled already answers status cancelled and
\* changes no table: units sold again to another sale stay sold, the recorded
\* reason, actor and time stay, and no audit entry is added.
C9_CancelTwice ==
    [][\A r \in Reqs :
          CancelStep(r) /\ sales[req[r].sale].status = "cancelled" =>
              /\ tx'[r].result.error = "none"
              /\ tx'[r].result.data.sale_id = req[r].sale
              /\ tx'[r].result.data.status = "cancelled"
              /\ UNCHANGED <<db, idempotency_keys>>]_vars

\* a second cancel, under another reason and actor, was answered while a unit of
\* the sale belongs to a later sale
C9_Witness ==
    \E r \in Reqs :
        /\ pc[r] = "rpc_done" /\ req[r].op = "cancel" /\ req[r].sale \in DOMAIN sales
        /\ tx[r].result = [error |-> "none",
                           data |-> [sale_id |-> req[r].sale, status |-> "cancelled",
                                     already_cancelled |-> TRUE]]
        /\ sales[req[r].sale].cancelled_by # req[r].actor
        /\ \E u \in ItemUnits(req[r].sale) :
              stock_items[u].status = "sold" /\ stock_items[u].sale_id # req[r].sale

\* C10: once a sale is cancelled, a later create that names a unit it released
\* succeeds: the unit is sold to the new sale and the earlier sale stays cancelled.
C10_ResaleAfterCancel ==
    \A r \in Reqs :
        /\ pc[r] = "done" /\ req[r].op = "create"
        /\ \E e \in hist[r].released : e[1] \in NamedUnits(r)
        /\ NamedUnits(r) \ {e[1] : e \in hist[r].released} \subseteq hist[r].avail
        => /\ resp[r].status = 201
           /\ \A e \in hist[r].released :
                 e[1] \in NamedUnits(r) =>
                    /\ stock_items[e[1]].status = "sold"
                    /\ stock_items[e[1]].sale_id = resp[r].body.sale_id
                    /\ resp[r].body.sale_id # e[2]
                    /\ sales[e[2]].status = "cancelled"
                    /\ CompletedSalesOf(e[1]) = {resp[r].body.sale_id}

\* a unit released by a cancelled sale was sold again
C10_Witness ==
    \E r \in Reqs : \E e \in hist[r].released :
        /\ pc[r] = "done" /\ req[r].op = "create" /\ resp[r].status = 201
        /\ e[1] \in NamedUnits(r)
        /\ stock_items[e[1]].sale_id = resp[r].body.sale_id

KeyedCreate(r) == pc[r] = "done" /\ req[r].op = "create" /\ req[r].key # NoKey

\* the sales named by the 201 answers to requests identical to r's
SalesAnswered(r) ==
    {a[2].body.sale_id : a \in {b \in answered : b[1] = Signature(req[r]) /\ b[2].status = 201}}

\* C4: the same create payload sent twice in sequence under the same key and
\* actor gets the identical status and body both times, and the create RPC runs
\* once: one sale row exists for the two requests.
C4_ReplayIdentical ==
    \A r \in Reqs :
        KeyedCreate(r) /\ (\E p \in hist[r].prior : p.status = 201) =>
            /\ hist[r].prior = {resp[r]}
            /\ ~hist[r].ranRpc
            /\ DOMAIN sales = hist[r].before
            /\ SalesAnswered(r) = {resp[r].body.sale_id}
            /\ resp[r].body.sale_id \in DOMAIN sales

\* a created sale was answered a second time after it had been cancelled
C4_Witness ==
    \E r \in Reqs :
        /\ KeyedCreate(r) /\ resp[r].status = 201 /\ resp[r] \in hist[r].prior
        /\ sales[resp[r].body.sale_id].status = "cancelled"

\* C5: of two identical concurrent creates under the same key and actor at most
\* one reaches the create RPC; the other is answered with the stored response or
\* with 409 in-progress (with 409 idempotency_conflict when the key is stored under
\* another fingerprint), and the sale is not created twice.
C5_OneRunner ==
    \A a, b \in Reqs :
        /\ a # b
        /\ req[a].op = "create" /\ req[a].key # NoKey
        /\ Signature(req[a]) = Signature(req[b])
        => /\ ~(hist[a].ranRpc /\ hist[b].ranRpc)
           /\ Cardinality(SalesAnswered(a)) <= 1
           /\ pc[a] = "done" /\ ~hist[a].ranRpc =>
                 /\ IdemKey(a) \in DOMAIN idempotency_keys
                 /\ \/ /\ idempotency_keys[IdemKey(a)].request_hash # hashPayload(req[a].payload)
                       /\ resp[a] = [status |-> 409,
                                     body |-> makeError("idempotency_conflict", NoText)]
                    \/ resp[a] = [status |-> 409,
                                  body |-> makeError("idempotency_in_progress", NoText)]
                    \/ resp[a] = [status |-> idempotency_keys[IdemKey(a)].response_status,
                                  body |-> idempotency_keys[IdemKey(a)].response_body]

\* the request that lost the insert race was answered in-progress, the other created
C5_Witness ==
    \E a, b \in Reqs :
        /\ a # b /\ KeyedCreate(a) /\ KeyedCreate(b)
        /\ Signature(req[a]) = Signature(req[b])
        /\ hist[a].raced /\ ~hist[a].ranRpc
        /\ resp[a] = [status |-> 409, body |-> makeError("idempotency_in_progress", NoText)]
        /\ hist[b].ranRpc /\ resp[b].status = 201

\* r looks the key up in this step and finds it under another fingerprint
ConflictStep(r) ==
    /\ pc[r] \in {"idem_find", "idem_raced"} /\ pc'[r] # pc[r]
    /\ IdemKey(r) \in DOMAIN idempotency_keys
    /\ idempotency_keys[IdemKey(r)].request_hash # hashPayload(req[r].payload)

\* C6: a create that reuses a key of the same actor with a payload of another
\* fingerprint is answered 409 idempotency_conflict and touches nothing: no RPC,
\* no table change, the stored record unchanged; on the first lookup and on the
\* lookup after a lost insert race.
C6_ConflictTouchesNothing ==
    [][\A r \in Reqs :
          ConflictStep(r) =>
              /\ pc'[r] = "done"
              /\ resp'[r] = [status |-> 409, body |-> makeError("idempotency_conflict", NoText)]
              /\ ~hist'[r].ranRpc
              /\ UNCHANGED <<db, idempotency_keys>>]_vars

\* one request met the conflict on the first lookup, another after the lost race
C6_Witness ==
    \E a, b \in Reqs :
        /\ KeyedCreate(a) /\ KeyedCreate(b)
        /\ resp[a] = [status |-> 409, body |-> makeError("idempotency_conflict", NoText)]
        /\ resp[b] = resp[a]
        /\ hist[a].raced /\ ~hist[b].raced

\* C7: when the first attempt under a key ended in an engine error, such as the
\* 409 stock conflict, a retry with the same key and payload gets that same
\* status and error body and the create RPC does not run again, also when the
\* unit has become available since.
C7_ErrorReplayed ==
    \A r \in Reqs :
        KeyedCreate(r) /\ (\E p \in hist[r].prior : StockConflictOn(p, NamedUnits(r))) =>
            /\ hist[r].prior = {resp[r]}
            /\ ~hist[r].ranRpc
            /\ DOMAIN sales = hist[r].before
            /\ SalesAnswered(r) = {}

\* the stock conflict was replayed although every unit named is available again
C7_Witness ==
    \E r \in Reqs :
        /\ KeyedCreate(r) /\ resp[r] \in hist[r].prior
        /\ StockConflictOn(resp[r], NamedUnits(r))
        /\ \A u \in NamedUnits(r) : stock_items[u].status = "available"

SaleItemsOf(s) == {i \in sale_items : i.sale_id = s}

\* C12: in every reachable state each sale's stored total equals the sum of the
\* subtotals of its current sale_items rows: after create, after update with a
\* new item set, after update without items and after cancel.
C12_TotalIsSumOfSubtotals ==
    \A s \in DOMAIN sales : sales[s].total_ars = SumSubtotals(SaleItemsOf(s))

\* an update replaced one item by two, and another sale was cancelled
C12_Witness ==
    \E s \in DOMAIN sales, t \in DOMAIN sales :
        /\ Updates({s}) = 1 /\ Cardinality(SaleItemsOf(s)) = 2
        /\ sales[s].total_ars = 4
        /\ sales[t].status = "cancelled" /\ SaleItemsOf(t) # {}

\* C13: every non-cancelled sale has balance_due_ars = max(total_ars - paid_ars, 0)
\* after create, update, register payment and settle.
C13_BalanceIsTotalMinusPaid ==
    \A s \in DOMAIN sales :
        sales[s].status # "cancelled" =>
            sales[s].balance_due_ars = Max(sales[s].total_ars - sales[s].paid_ars, 0)

\* the status that the stored balance, paid amount and lifecycle status call for
ReceivableStatusOf(row) ==
    IF row.status = "cancelled" \/ row.balance_due_ars <= 0 THEN "paid"
    ELSE IF row.paid_ars > 0 THEN "partial"
    ELSE "pending"

\* C14: receivable_status is always the fixed function of the stored
\* balance_due_ars, paid_ars and lifecycle status; no operation leaves it out of step.
C14_StatusFollowsBalance ==
    \A s \in DOMAIN sales : sales[s].receivable_status = ReceivableStatusOf(sales[s])

\* what one payment counts for in ARS on a sale with the given rate
CountedArs(payment, fx_rate_used) ==
    IF payment.currency = "USD" THEN payment.amount * fx_rate_used ELSE payment.amount

RECURSIVE CountedUpTo(_, _, _)
CountedUpTo(payments, n, fx_rate_used) ==
    IF n = 0 THEN 0
    ELSE CountedUpTo(payments, n - 1, fx_rate_used) + CountedArs(payments[n], fx_rate_used)

RecomputeStep(r) ==
    pc[r] = "rpc_recompute" /\ pc'[r] = "rpc_done" /\ req[r].sale \in DOMAIN sales

\* C15: a recompute of a sale with N payments sets paid_ars to the sum of the
\* payments, USD ones converted with the sale's fx_rate_used, and balance_due_ars to
\* max(total_ars - paid_ars, 0); recomputing again changes neither these nor the
\* receivable status.
C15_RecomputeSumsPayments ==
    [][\A r \in Reqs :
          RecomputeStep(r) =>
              LET s == req[r].sale
                  payments == sale_payments[s]
                  paid == CountedUpTo(payments, Len(payments), sales[s].fx_rate_used)
              IN /\ sales'[s].paid_ars = paid
                 /\ sales'[s].balance_due_ars = Max(sales[s].total_ars - paid, 0)
                 /\ sale_payments' = sale_payments
                 /\ tx'[r].result.data.paid_ars = paid
                 /\ rpc_recompute_sale_receivable_v1(sales'[s], sale_payments'[s]) = sales'[s]
                 /\ (sales[s] = rpc_recompute_sale_receivable_v1(sales[s], payments)
                        => sales' = sales)]_vars

\* a recompute answered on a sale in USD with three payments, one of them in USD
C15_Witness ==
    \E r \in Reqs :
        /\ pc[r] = "done" /\ req[r].op = "recompute" /\ req[r].sale \in DOMAIN sales
        /\ resp[r].body.error = "none"
        /\ LET s == req[r].sale
           IN /\ Len(sale_payments[s]) = 3
              /\ sales[s].fx_rate_used = 3
              /\ \E i \in 1..3 : sale_payments[s][i].currency = "USD"
              /\ \E i \in 1..3 : sale_payments[s][i].currency = "ARS"
              /\ resp[r].body.data.paid_ars = sales[s].paid_ars

SettleStep(r) ==
    pc[r] = "rpc_settle" /\ pc'[r] = "rpc_done" /\ req[r].sale \in DOMAIN sales

\* C16: after settle succeeds on a non-cancelled sale with a positive balance,
\* whatever the allowed method and the currency (ARS or USD, the sale with or
\* without fx_rate_used), exactly one payment was added, balance_due_ars is 0 and
\* receivable_status is paid.
C16_SettleClears ==
    [][\A r \in Reqs :
          /\ SettleStep(r)
          /\ sales[req[r].sale].status # "cancelled"
          /\ rpc_recompute_sale_receivable_v1(sales[req[r].sale],
                                              sale_payments[req[r].sale]).balance_due_ars > 0
          => LET s == req[r].sale
             IN /\ Len(sale_payments'[s]) = Len(sale_payments[s]) + 1
                /\ sales'[s].balance_due_ars = 0
                /\ sales'[s].receivable_status = "paid"]_vars

\* C17: settle on a non-cancelled sale whose recomputed balance is not positive
\* posts nothing: no payment row, no payment audit entry, and it returns balance 0
\* and status paid with no payment id.
C17_SettleNothingDue ==
    [][\A r \in Reqs :
          /\ SettleStep(r)
          /\ sales[req[r].sale].status # "cancelled"
          /\ rpc_recompute_sale_receivable_v1(sales[req[r].sale],
                                              sale_payments[req[r].sale]).balance_due_ars <= 0
          => LET s == req[r].sale
             IN /\ sale_payments' = sale_payments
                /\ audit_logs' = audit_logs
                /\ tx'[r].result.error = "none"
                /\ tx'[r].result.data.payment_id = NULL
                /\ tx'[r].result.data.balance_due_ars = 0
                /\ tx'[r].result.data.receivable_status = "paid"
                /\ tx'[r].result.data.paid_ars = sales'[s].paid_ars]_vars

\* a settle answered without a payment on a sale that was settled before
C17_Witness ==
    \E r \in Reqs :
        /\ pc[r] = "done" /\ req[r].op = "settle" /\ req[r].sale \in DOMAIN sales
        /\ resp[r].body.error = "none"
        /\ resp[r].body.data.payment_id = NULL
        /\ \E i \in 1..Len(sale_payments[req[r].sale]) :
              sale_payments[req[r].sale][i].method = "transfer"
        /\ sales[req[r].sale].balance_due_ars = 0

CreatedStep(r) ==
    pc[r] = "create_item" /\ pc'[r] = "rpc_done" /\ tx'[r].result.error = "none"

\* C18: a create without explicit payments posts exactly one payment, in the
\* sale's method and currency, of the deposit when 0 < deposit < total and of the
\* total otherwise; an ARS sale is then partial with balance total - deposit, or
\* paid with balance 0.
C18_SynthesizedPayment ==
    [][\A r \in Reqs :
          CreatedStep(r) =>
              LET s == tx[r].sale
                  deposit == req[r].payload.deposit_ars
                  total == sales'[s].total_ars
                  part == deposit > 0 /\ deposit < total
              IN /\ sale_payments[s] = <<>>
                 /\ sale_payments'[s] =
                        <<[method |-> sales'[s].payment_method,
                           currency |-> sales'[s].currency,
                           amount |-> IF part THEN deposit ELSE total]>>
                 /\ sales'[s].payment_method = req[r].payload.payment_method
                 /\ sales'[s].currency = req[r].payload.currency
                 /\ sales'[s].currency = "ARS" =>
                        IF part
                        THEN /\ sales'[s].receivable_status = "partial"
                             /\ sales'[s].balance_due_ars = total - deposit
                             /\ sales'[s].paid_ars = deposit
                        ELSE /\ sales'[s].receivable_status = "paid"
                             /\ sales'[s].balance_due_ars = 0
                             /\ sales'[s].paid_ars = total]_vars

\* a create by card in ARS with a deposit below the total was answered
C18_Witness ==
    \E r \in Reqs :
        /\ pc[r] = "done" /\ req[r].op = "rpc_create" /\ resp[r].body.error = "none"
        /\ req[r].payload.deposit_ars = 1 /\ req[r].payload.payment_method = "card"
        /\ LET s == resp[r].body.data.sale_id
           IN /\ sale_payments[s] = <<[method |-> "card", currency |-> "ARS", amount |-> 1]>>
              /\ resp[r].body.data.receivable_status = "partial"
              /\ resp[r].body.data.balance_due_ars = 1

RECURSIVE QtyTimesPriceUpTo(_, _)
QtyTimesPriceUpTo(items, n) ==
    IF n = 0 THEN 0
    ELSE QtyTimesPriceUpTo(items, n - 1) + items[n].qty * items[n].sale_price_ars

\* the caller's total is more than 0.01 away from the sum over the items
CallerTotalOff(payload) ==
    /\ payload.input_total_ars # NULL
    /\ \/ payload.input_total_ars - QtyTimesPriceUpTo(payload.items, Len(payload.items)) > 1
       \/ QtyTimesPriceUpTo(payload.items, Len(payload.items)) - payload.input_total_ars > 1

\* C11: every accepted create stores as the sale's total the sum over the request's
\* items of qty times price; a well-formed request whose caller total is more than
\* 0.01 away from that sum is answered total_mismatch and writes no sale, item,
\* warranty, payment or stock change.
C11_TotalFromItems ==
    [][\A r \in Reqs :
          /\ CreatedStep(r) =>
                /\ sales'[tx[r].sale].total_ars =
                       QtyTimesPriceUpTo(req[r].payload.items, Len(req[r].payload.items))
                /\ tx'[r].result.data.total_ars = sales'[tx[r].sale].total_ars
                /\ ~CallerTotalOff(req[r].payload)
          /\ req'[r].op = "create" /\ CallerTotalOff(req'[r].payload) =>
                /\ UNCHANGED db
                /\ pc'[r] = "done" /\ saleCreateSchema(req'[r].payload) =>
                       /\ resp'[r].status = 422
                       /\ resp'[r].body.error.code = "total_mismatch"]_vars

\* a sale of two units carries total 0.04, and the next create, with a caller
\* total of 0.07 for one unit, was answered total_mismatch
C11_Witness ==
    \E r \in Reqs, s \in DOMAIN sales :
        /\ sales[s].total_ars = 4 /\ Cardinality(SaleItemsOf(s)) = 2
        /\ pc[r] = "done" /\ req[r].op = "create"
        /\ req[r].payload.input_total_ars = 7 /\ req[r].payload.total_ars = 2
        /\ resp[r] = [status |-> 422, body |-> makeError("total_mismatch", <<7, 2>>)]

\* the create of r fails at an item after the first: unit not found or not available
LaterItemFails(r) ==
    /\ pc[r] = "create_item" /\ pc'[r] = "rpc_done"
    /\ tx[r].idx >= 2
    /\ tx'[r].result.error \in {"not_found", "stock_conflict"}

\* C19: a create with several items that fails at a later item, because the unit
\* is not found or not available, leaves no sale row, sale items, warranties,
\* payments or audit entries, and the units listed before the failing one are
\* still available with no sale reference.
C19_FailedCreateLeavesNoTrace ==
    [][\A r \in Reqs :
          LaterItemFails(r) =>
              LET s == tx[r].sale
              IN /\ s \notin DOMAIN sales'
                 /\ ~\E i \in sale_items' : i.sale_id = s
                 /\ ~\E w \in warranties' : w.sale_id = s
                 /\ sale_payments'[s] = <<>>
                 /\ audit_logs'[s] = <<>>
                 /\ \A i \in 1 .. tx[r].idx - 1 :
                       LET u == req[r].payload.items[i].stock_item_id
                       IN /\ stock_items'[u] = [status |-> "available", sale_id |-> NULL,
                                                sold_at |-> NoText]
                          /\ ~\E o \in Reqs : u \in Locks(o)'
                 /\ UNCHANGED db]_vars

\* a create of u1 and u2 was answered a stock conflict on u2, sold before; u1 is
\* available and the only item and warranty are those of the earlier sale
C19_Witness ==
    \E r \in Reqs :
        /\ pc[r] = "done" /\ req[r].op = "create" /\ Len(req[r].payload.items) = 2
        /\ req[r].payload.items[1].stock_item_id = "u1"
        /\ req[r].payload.items[2].stock_item_id = "u2"
        /\ resp[r] = [status |-> 409, body |-> makeError("conflict", <<"u2", "sold">>)]
        /\ stock_items["u1"] = [status |-> "available", sale_id |-> NULL, sold_at |-> NoText]
        /\ \E s \in DOMAIN sales : ItemUnits(s) = {"u2"} /\ sales[s].status = "completed"
        /\ Cardinality(sale_items) = 1 /\ Cardinality(warranties) = 1

\* some item of the request asks for a quantity other than 1
QtyNot1(payload) == \E i \in 1 .. Len(payload.items) : payload.items[i].qty # 1

\* the quantity is the request's only flaw: no caller total, and every item
\* before the first one with a quantity above 1 names an available unit
OnlyQtyWrong(payload) ==
    /\ QtyNot1(payload)
    /\ payload.input_total_ars = NULL
    /\ \A i \in 1 .. Len(payload.items) :
          (\A j \in 1 .. i : payload.items[j].qty = 1) =>
              /\ payload.items[i].stock_item_id \in DOMAIN stock_items
              /\ stock_items[payload.items[i].stock_item_id].status = "available"

StockConflictAnswered(r) ==
    /\ pc[r] = "rpc_done" /\ pc'[r] = "done" /\ req[r].op = "create"
    /\ tx[r].result.error = "stock_conflict"

\* C21: a create that names a stock unit whose status is not available is answered
\* with HTTP 409 and error code stock_conflict, and no sale row is created.
C21_StockConflictCode ==
    [][\A r \in Reqs :
          StockConflictAnswered(r) =>
              /\ resp'[r].status = 409
              /\ resp'[r].body.error.code = "stock_conflict"
              /\ DOMAIN sales' = hist[r].before]_vars

\* C22: after a successful create every listed stock unit is sold and references
\* the new sale (sale reference and sold-at stamped), and the sale has exactly one
\* sale item and exactly one warranty per listed unit.
C22_CreateClaimsUnits ==
    [][\A r \in Reqs :
          CreatedStep(r) =>
              LET s == tx[r].sale
                  listed == {req[r].payload.items[i].stock_item_id :
                                 i \in 1 .. Len(req[r].payload.items)}
              IN /\ \A u \in listed :
                        /\ stock_items'[u] = [status |-> "sold", sale_id |-> s,
                                              sold_at |-> SaleDate]
                        /\ Cardinality({i \in sale_items' :
                                           i.sale_id = s /\ i.stock_item_id = u}) = 1
                        /\ Cardinality({w \in warranties' :
                                           w.sale_id = s /\ w.stock_item_id = u}) = 1
                 /\ Cardinality({i \in sale_items' : i.sale_id = s}) = Cardinality(listed)
                 /\ Cardinality({w \in warranties' : w.sale_id = s}) = Cardinality(listed)
                 /\ \A u \in Units \ listed : stock_items'[u] = stock_items[u]]_vars

\* a create of two units was answered 201: both are sold to the new sale, which
\* has two items and two warranties
C22_Witness ==
    \E r \in Reqs :
        /\ pc[r] = "done" /\ req[r].op = "create" /\ resp[r].status = 201
        /\ Len(req[r].payload.items) = 2
        /\ LET s == resp[r].body.sale_id
           IN /\ \A u \in Units : stock_items[u].status = "sold" /\ stock_items[u].sale_id = s
              /\ Cardinality(SaleItemsOf(s)) = 2
              /\ Cardinality({w \in warranties : w.sale_id = s}) = 2

\* r's update, register-payment or settle RPC runs on a cancelled sale
OnCancelledSale(r) ==
    /\ pc[r] \in {"rpc_update", "rpc_register", "rpc_settle"}
    /\ pc'[r] # pc[r]
    /\ req[r].sale \in DOMAIN sales
    /\ sales[req[r].sale].status = "cancelled"

\* C23: cancelled is terminal. No operation returns a cancelled sale to completed,
\* and update, register payment and settle on a cancelled sale each fail with a
\* conflict error and change no sale field, item, stock unit, warranty or payment.
C23_CancelledIsTerminal ==
    [][/\ \A s \in DOMAIN sales :
             sales[s].status = "cancelled" =>
                 s \in DOMAIN sales' /\ sales'[s].status = "cancelled"
       /\ \A r \in Reqs :
             OnCancelledSale(r) =>
                 /\ pc'[r] = "rpc_done"
                 /\ tx'[r].result.error = "conflict"
                 /\ UNCHANGED db]_vars

\* an update of a cancelled sale was answered 409 conflict, and the sale, which
\* had been paid, is still cancelled
C23_Witness ==
    \E r \in Reqs :
        /\ pc[r] = "done" /\ req[r].op = "update" /\ req[r].sale \in DOMAIN sales
        /\ sales[req[r].sale].status = "cancelled"
        /\ resp[r] = [status |-> 409, body |-> makeError("conflict", "sale_already_cancelled")]
        /\ Len(sale_payments[req[r].sale]) >= 2

\* the handler answers a create whose RPC succeeded
CreateAnswered(r) ==
    /\ pc[r] = "rpc_done" /\ pc'[r] = "done" /\ req[r].op = "create"
    /\ tx[r].result.error = "none"

\* C24: the success result that create returns to the caller carries the
\* receivable snapshot of the new sale (paid amount, balance due and receivable
\* status, equal to the values stored on the sale row at commit) together with the
\* sale id and the computed total.
C24_CreateReturnsReceivable ==
    [][\A r \in Reqs :
          CreateAnswered(r) =>
              LET s == tx[r].result.data.sale_id
              IN /\ resp'[r].status = 201
                 /\ resp'[r].body.sale_id = s
                 /\ resp'[r].body.total_ars = sales[s].total_ars
                 /\ {"paid_ars", "balance_due_ars", "receivable_status"}
                        \subseteq DOMAIN resp'[r].body
                 /\ resp'[r].body.paid_ars = sales[s].paid_ars
                 /\ resp'[r].body.balance_due_ars = sales[s].balance_due_ars
                 /\ resp'[r].body.receivable_status = sales[s].receivable_status]_vars

\* r inserted the reservation of its key and has not answered yet
HoldsReservation(r) ==
    /\ req[r].op = "create" /\ req[r].idempotencyId # NoId
    /\ pc[r] \in {"rpc_create", "create_item", "rpc_done"}

\* r inserted the reservation of its key and has answered its caller
AnsweredReserved(r) ==
    pc[r] = "done" /\ req[r].op = "create" /\ req[r].idempotencyId # NoId

\* the record under key k stores a response
ResponseStored(k) ==
    /\ k \in DOMAIN idempotency_keys
    /\ idempotency_keys[k].response_status # NULL
    /\ idempotency_keys[k].response_body # NoBody

C26_ResponseWrittenOnce ==
    [][\A k \in DOMAIN idempotency_keys :
          /\ k \in DOMAIN idempotency_keys'
          /\ idempotency_keys'[k].request_hash = idempotency_keys[k].request_hash
          /\ ResponseStored(k) => idempotency_keys'[k] = idempotency_keys[k]
          /\ idempotency_keys'[k] # idempotency_keys[k] =>
                 \E r \in Reqs :
                     /\ req[r].idempotencyId = k
                     /\ pc[r] = "rpc_done" /\ pc'[r] = "done"
                     /\ idempotency_keys'[k].response_status = resp'[r].status
                     /\ idempotency_keys'[k].response_body = resp'[r].body
                     /\ \A o \in Reqs \ {r} : req[o].idempotencyId # k]_vars

\* the record stores the 201 of the request that reserved the key, under that
\* request's fingerprint, and the other client, which lost the insert race, was
\* answered from it
C26_Witness ==
    \E a, b \in Reqs :
        /\ a # b /\ AnsweredReserved(a) /\ IdemKey(b) = req[a].idempotencyId
        /\ idempotency_keys[req[a].idempotencyId].response_status = 201
        /\ pc[b] = "done" /\ hist[b].raced /\ req[b].idempotencyId = NoId
        /\ resp[b] = resp[a]
        /\ idempotency_keys[req[a].idempotencyId].request_hash = hashPayload(req[a].payload)

\* what a JavaScript value holds, whatever the order its objects list their
\* keys in: an object as the function from its keys to what they hold
RECURSIVE Canon(_)
Canon(value) ==
    IF value.type = "object"
    THEN [type |-> "object",
          fields |-> [k \in {value.entries[i][1] : i \in 1 .. Len(value.entries)} |->
                         Canon((CHOOSE e \in {value.entries[i] : i \in 1 .. Len(value.entries)} :
                                    e[1] = k)[2])]]
    ELSE IF value.type = "array"
    THEN [type |-> "array", items |-> [i \in 1 .. Len(value.items) |-> Canon(value.items[i])]]
    ELSE value

Fingerprinted(r) == req[r].op = "fingerprint" /\ pc[r] = "done"

ItemsOfPayload(payload) ==
    (CHOOSE e \in {payload.entries[i] : i \in 1 .. Len(payload.entries)} : e[1] = "items")[2].items

\* the same items in another order
Reordered(a, b) ==
    /\ Len(a) = Len(b)
    /\ \E i \in 1 .. Len(a) : Canon(a[i]) # Canon(b[i])
    /\ \A i \in 1 .. Len(a) : \E j \in 1 .. Len(b) : Canon(a[i]) = Canon(b[j])
    /\ \A j \in 1 .. Len(b) : \E i \in 1 .. Len(a) : Canon(a[i]) = Canon(b[j])

\* C27: two payloads with the same keys and values give the same text and the
\* same digest whatever order their objects list the keys in, at every depth,
\* and payloads that differ give different ones; in particular the same items
\* in another order give a different text.
C27_KeyOrderInsensitive ==
    \A a \in Reqs : \A b \in Reqs :
        (Fingerprinted(a) /\ Fingerprinted(b)) =>
            /\ (Canon(req[a].payload) = Canon(req[b].payload))
                   <=> (resp[a].body.text = resp[b].body.text)
            /\ (resp[a].body.text = resp[b].body.text)
                   <=> (resp[a].body.requestHash = resp[b].body.requestHash)
            /\ Reordered(ItemsOfPayload(req[a].payload), ItemsOfPayload(req[b].payload))
                   => resp[a].body.text # resp[b].body.text

\* two payloads that list the top-level keys and the keys of an item in
\* different orders were given the same digest
C27_Witness ==
    \E a \in Reqs : \E b \in Reqs :
        /\ Fingerprinted(a) /\ Fingerprinted(b)
        /\ req[a].payload.entries[1][1] # req[b].payload.entries[1][1]
        /\ Len(ItemsOfPayload(req[a].payload)) = 2
        /\ ItemsOfPayload(req[a].payload)[1].entries[2][1]
               # ItemsOfPayload(req[b].payload)[1].entries[2][1]
        /\ Canon(req[a].payload) = Canon(req[b].payload)
        /\ resp[a].body.requestHash = resp[b].body.requestHash

\* the payment rows a sale had are all still there, unchanged and in place
PaymentsKept(s) ==
    /\ Len(sale_payments'[s]) >= Len(sale_payments[s])
    /\ \A i \in 1 .. Len(sale_payments[s]) : sale_payments'[s][i] = sale_payments[s][i]

\* C29: payments are append-only: no step of register payment, settle,
\* recompute, update (item replacement included), cancel or create changes or
\* removes a payment row a sale already has; rows are only added.
C29_PaymentsAppendOnly ==
    [][\A s \in SaleIds : PaymentsKept(s)]_vars

\* a cancelled sale, created with one item and updated to two, still holds its
\* three payments: the one of the create, a registered one and the settling one
C29_Witness ==
    \E s \in DOMAIN sales :
        /\ sales[s].status = "cancelled"
        /\ Len(sale_payments[s]) = 3
        /\ sale_payments[s][3].method = "transfer"
        /\ \E i \in 1 .. Len(audit_logs[s]) : audit_logs[s][i] = "updated"
        /\ \E i \in sale_items : \E j \in sale_items :
              i.sale_id = s /\ j.sale_id = s /\ i # j

\* the RPC of a DELETE request on a sale that exists returns
DeleteStep(r) ==
    /\ req[r].op = "delete"
    /\ pc[r] = "rpc_cancel" /\ pc'[r] = "rpc_done"
    /\ req[r].sale \in DOMAIN sales

\* C30: a sale row is never removed: over every step the set of sale ids only
\* grows, and the legacy DELETE endpoint cancels the sale it names: the row
\* stays, cancelled (with the endpoint's reason if it was live), and the
\* sale's units are available again.
C30_SaleRowsKept ==
    [][/\ DOMAIN sales \subseteq DOMAIN sales'
       /\ \A r \in Reqs :
             DeleteStep(r) =>
                 LET s == req[r].sale
                 IN /\ s \in DOMAIN sales'
                    /\ sales'[s].status = "cancelled"
                    /\ sales[s].status # "cancelled" =>
                          /\ sales'[s].cancel_reason = "legacy_delete_endpoint"
                          /\ sales'[s].cancelled_by = req[r].actor
                          /\ \A u \in ItemUnits(s) : stock_items'[u].status = "available"
                    /\ sales[s].status = "cancelled" => sales'[s] = sales[s]]_vars

\* a DELETE of a live sale was answered 204 and the sale is still there,
\* cancelled, beside another sale
C30_Witness ==
    \E r \in Reqs :
        /\ req[r].op = "delete" /\ pc[r] = "done"
        /\ resp[r].status = 204
        /\ req[r].sale \in DOMAIN sales
        /\ sales[req[r].sale].cancel_reason = "legacy_delete_endpoint"
        /\ Cardinality(DOMAIN sales) = 2

\* r's transaction has begun and has neither committed nor aborted
InTransaction(r) == pc[r] \in {"rpc_create", "create_item", "rpc_update", "update_item"}

\* the transactions holding a row lock that r's next statement needs
Blockers(r) ==
    {o \in Reqs \ {r} :
        \/ /\ pc[r] \in {"create_item", "update_item"}
           /\ tx[r].idx <= Len(req[r].payload.items)
           /\ req[r].payload.items[tx[r].idx].stock_item_id \in Locks(o)
        \/ /\ pc[r] = "rpc_update"
           /\ req[r].sale \in DOMAIN sales
           /\ \/ tx[o].saleLock /\ tx[o].sale = req[r].sale
              \/ \E u \in ItemUnits(req[r].sale) : u \in Locks(o)}

FailedStep(r) ==
    /\ pc[r] \notin {"idle", "done", "rpc_done"} /\ pc'[r] = "rpc_done"
    /\ tx'[r].result.error # "none"

\* C31: audit entries are written with the change they record and are never
\* modified or removed: over every step the entries a sale had are all still
\* there in place; the step that commits a create appends the entries of the
\* sale creation, the stock-state change, the payment registration and the
\* warranty creation; the step that commits the cancellation of a live sale
\* appends the entries of the cancellation, the stock-state reversal and the
\* warranty removal; a step in which an operation fails appends none, and so
\* does a cancel that finds the sale cancelled already; entries appear only in
\* the step in which an RPC commits.
C31_AuditWithTheChange ==
    [][/\ \A s \in SaleIds :
             /\ Len(audit_logs'[s]) >= Len(audit_logs[s])
             /\ \A i \in 1 .. Len(audit_logs[s]) : audit_logs'[s][i] = audit_logs[s][i]
       /\ \A r \in Reqs :
             /\ CreatedStep(r) =>
                   /\ tx[r].sale \in DOMAIN sales' \ DOMAIN sales
                   /\ audit_logs'[tx[r].sale] =
                          <<"created", "sale_created", "stock_state_changed",
                            "payment_registered", "warranty_status_changed">>
                   /\ \A s \in SaleIds \ {tx[r].sale} : audit_logs'[s] = audit_logs[s]
             /\ (CancelStep(r) /\ sales[req[r].sale].status # "cancelled") =>
                   /\ sales'[req[r].sale].status = "cancelled"
                   /\ audit_logs'[req[r].sale] =
                          audit_logs[req[r].sale]
                              \o <<"cancelled", "stock_state_changed", "warranty_status_changed">>
                   /\ \A s \in SaleIds \ {req[r].sale} : audit_logs'[s] = audit_logs[s]
             /\ (CancelStep(r) /\ sales[req[r].sale].status = "cancelled") =>
                   audit_logs' = audit_logs
             /\ FailedStep(r) => (audit_logs' = audit_logs /\ db' = db)
       /\ audit_logs' # audit_logs =>
             \E r \in Reqs : /\ pc[r] \notin {"idle", "done", "rpc_done"}
                             /\ pc'[r] = "rpc_done"
                             /\ tx'[r].result.error = "none"]_vars

\* a sale was created, paid into, updated and then cancelled: its audit trail
\* holds the five entries of the create and ends with the three of the cancel
C31_Witness ==
    \E s \in DOMAIN sales :
        /\ sales[s].status = "cancelled"
        /\ Len(audit_logs[s]) >= 10
        /\ audit_logs[s][1] = "created"
        /\ audit_logs[s][Len(audit_logs[s]) - 2] = "cancelled"
        /\ \E i \in 1 .. Len(audit_logs[s]) : audit_logs[s][i] = "updated"
        /\ \E r \in Reqs : pc[r] = "rpc_done" /\ tx[r].result.error # "none"

\* the transaction of an update that replaces the items commits
ItemsReplacedStep(r) ==
    /\ req[r].op = "update" /\ req[r].payload.items # <<>>
    /\ pc[r] = "update_item" /\ pc'[r] = "rpc_done"
    /\ tx'[r].result.error = "none"

\* C32: after an update with a new item set succeeds on a completed sale, every
\* unit of the old set that is not in the new set is available, every unit of
\* the new set is sold (a unit of both sets is accepted and stays sold), the
\* sale's items and warranties are exactly one per unit of the new set, and the
\* stored total is the sum of the new items' subtotals.
C32_UpdateReplacesItems ==
    [][\A r \in Reqs :
          ItemsReplacedStep(r) =>
              LET s == req[r].sale
                  old == ItemUnits(s)
                  new == NamedUnits(r)
                  items == {i \in sale_items' : i.sale_id = s}
                  warr == {w \in warranties' : w.sale_id = s}
              IN /\ sales[s].status = "completed" /\ sales'[s].status = "completed"
                 /\ \A u \in old \ new : stock_items'[u].status = "available"
                 /\ \A u \in new : stock_items'[u].status = "sold"
                 /\ \A u \in Units \ (old \cup new) : stock_items'[u] = stock_items[u]
                 /\ {i.stock_item_id : i \in items} = new
                 /\ Cardinality(items) = Cardinality(new)
                 /\ {w.stock_item_id : w \in warr} = new
                 /\ Cardinality(warr) = Cardinality(new)
                 /\ sales'[s].total_ars = QtyTimesPriceUpTo(req[r].payload.items,
                                                            Len(req[r].payload.items))
                 /\ sales'[s].total_ars = SumSubtotals(items)]_vars

\* an update of a sale of two units to one of them has committed: the unit
\* left out is available, the unit kept is sold, and the sale has one item
C32_Witness ==
    \E r \in Reqs :
        /\ req[r].op = "update" /\ pc[r] = "rpc_done" /\ tx[r].result.error = "none"
        /\ Len(req[r].payload.items) = 1
        /\ LET s == req[r].sale
               kept == req[r].payload.items[1].stock_item_id
           IN /\ sales[s].status = "completed"
              /\ ItemUnits(s) = {kept}
              /\ stock_items[kept].status = "sold" /\ stock_items[kept].sale_id = s
              /\ \E u \in Units \ {kept} :
                    stock_items[u].status = "available" /\ stock_items[u].sale_id = s
              /\ sales[s].total_ars = 2

\* an update that replaces the items fails after the release of the old ones
UpdateFailsAfterRelease(r) ==
    /\ req[r].op \in {"update", "rpc_update"} /\ req[r].payload.items # <<>>
    /\ pc[r] = "update_item" /\ pc'[r] = "rpc_done"
    /\ tx'[r].result.error # "none"

\* C33: an update that fails after it has released the old items, because a new
\* unit is not found or not available, a quantity is not 1, or the caller's
\* total is off the recomputed one, changes nothing: the sale keeps its items,
\* warranties and total, every stock unit keeps its status, and no lock is left.
C33_FailedUpdateChangesNothing ==
    [][\A r \in Reqs :
          UpdateFailsAfterRelease(r) =>
              LET s == req[r].sale
              IN /\ tx[r].saleLock /\ ItemUnits(s) \subseteq Locks(r)
                 /\ tx'[r].result.error \in
                        {"not_found", "stock_unavailable", "validation_error", "total_mismatch"}
                 /\ sales' = sales
                 /\ sale_items' = sale_items
                 /\ warranties' = warranties
                 /\ stock_items' = stock_items
                 /\ sale_payments' = sale_payments /\ audit_logs' = audit_logs
                 /\ Locks(r)' = {} /\ ~tx'[r].saleLock]_vars

\* an update of a sale to its own unit and a unit sold to another sale failed
\* at the second item: both units are still sold and the sale has its one item
C33_Witness ==
    \E r \in Reqs :
        /\ req[r].op = "update" /\ pc[r] = "rpc_done"
        /\ tx[r].result.error = "stock_unavailable"
        /\ Len(req[r].payload.items) = 2
        /\ LET s == req[r].sale
               own == req[r].payload.items[1].stock_item_id
               other == req[r].payload.items[2].stock_item_id
           IN /\ ItemUnits(s) = {own}
              /\ stock_items[own].status = "sold"
              /\ stock_items[other].status = "sold" /\ stock_items[other].sale_id # s
              /\ \E w \in warranties : w.sale_id = s /\ w.stock_item_id = own

\* unit u is sold on the account of sale s: it carries the sale's reference, or
\* it is an item of s and of no live sale
SoldTo(u, s) ==
    /\ stock_items[u].status = "sold"
    /\ \/ stock_items[u].sale_id = s
       \/ ~\E t \in DOMAIN sales : t # s /\ sales[t].status = "completed" /\ u \in ItemUnits(t)

\* C34: operations on one sale are serialized by the sale row lock: under every
\* interleaving of cancel with register payment, settle or update, no payment
\* is posted to a sale whose cancellation has committed, and no state is
\* reached in which a sale is cancelled while a unit among its items is still
\* sold to it.
C34_SerializedBySaleLock ==
    /\ [][\A s \in DOMAIN sales :
             sales[s].status = "cancelled" =>
                 /\ sale_payments'[s] = sale_payments[s]
                 /\ s \in DOMAIN sales' /\ sales'[s] = sales[s]]_vars
    /\ [](\A s \in DOMAIN sales :
             sales[s].status = "cancelled" => \A u \in ItemUnits(s) : ~SoldTo(u, s))

\* a cancel has to wait: a register payment that found the sale live holds the
\* sale row and has not posted its payment yet
C34_Witness ==
    /\ pc["r2"] = "register_post" /\ tx["r2"].saleLock
    /\ pc["r1"] = "rpc_cancel" /\ req["r1"].sale = tx["r2"].sale
    /\ sales[tx["r2"].sale].status = "completed"
    /\ ~ENABLED rpc_cancel_sale_v2("r1")

\* a register payment commits
RegisteredStep(r) ==
    /\ pc[r] = "rpc_register" /\ pc'[r] = "rpc_done"
    /\ tx'[r].result.error = "none"

\* C36: every register payment that succeeds with an amount above 0 on a
\* non-cancelled sale strictly increases the sale's stored paid amount, in ARS
\* and in USD, whether or not the sale has an fx_rate_used: a posted payment is
\* never counted as zero.
C36_PaymentIncreasesPaid ==
    [][\A r \in Reqs :
          RegisteredStep(r) =>
              LET s == req[r].sale
              IN /\ req[r].payload.amount > 0
                 /\ sales[s].status # "cancelled"
                 /\ Len(sale_payments'[s]) = Len(sale_payments[s]) + 1
                 /\ sales'[s].paid_ars > sales[s].paid_ars]_vars

WarrantiesOf(s) == {w \in warranties : w.sale_id = s}

\* C35: in every state the warranties of a sale mirror its items: a completed
\* sale has exactly one warranty per item, for the same unit, a cancelled sale
\* has none, and no warranty exists for a unit that is not an item of its sale.
C35_WarrantiesMirrorItems ==
    /\ \A s \in DOMAIN sales :
          /\ sales[s].status = "completed" =>
                /\ {w.stock_item_id : w \in WarrantiesOf(s)} = ItemUnits(s)
                /\ Cardinality(WarrantiesOf(s)) = Cardinality(SaleItemsOf(s))
                /\ Cardinality(SaleItemsOf(s)) = Cardinality(ItemUnits(s))
          /\ sales[s].status = "cancelled" => WarrantiesOf(s) = {}
    /\ \A w \in warranties :
          /\ w.sale_id \in DOMAIN sales
          /\ w.stock_item_id \in ItemUnits(w.sale_id)

\* beside a cancelled sale that keeps its item and has no warranty, a sale
\* whose items were replaced by two units holds two warranties
C35_Witness ==
    \E s \in DOMAIN sales, t \in DOMAIN sales :
        /\ sales[s].status = "completed" /\ sales[t].status = "cancelled"
        /\ Updates({s}) = 1
        /\ Cardinality(WarrantiesOf(s)) = 2
        /\ ItemUnits(t) # {} /\ WarrantiesOf(t) = {}

\* ------------------------------------------- item lists naming a unit twice
\* item lists of one unit, and of the same unit twice
RepeatedItemLists ==
    {<<Item(u, 1, p)>> : u \in Units, p \in Prices}
    \cup {<<Item(u, 1, p), Item(u, 1, p)>> : u \in Units, p \in Prices}

\* bodies of POST /api/sales
RepeatedCreates == [items : RepeatedItemLists, deposit_ars : {NULL}, input_total_ars : {NULL}]

\* p_payload of a direct rpc_create_sale_v2 call
RepeatedRpcCreates ==
    [items : RepeatedItemLists, deposit_ars : {NULL}, total_ars : {NULL},
     payment_method : {"cash"}, currency : {"ARS"}, fx_rate_used : {NULL}]

\* bodies of PATCH /api/sales/:id and p_payload of a direct rpc_update_sale_v2 call
RepeatedPatches == [items : RepeatedItemLists, deposit_ars : {NULL}, total_ars : {NULL}]

\* One client that creates and updates sales, through the handlers and by direct
\* RPC calls, with item lists that may name the same unit twice.
RepeatedNext ==
    \E r \in {"r1"} :
        \/ StartCreate(r, {"a1"}, {NoKey}, RepeatedCreates)
        \/ StartRpcCreate(r, RepeatedRpcCreates)
        \/ rpc_create_sale_v2_begin(r)
        \/ rpc_create_sale_v2_item(r)
        \/ rpc_create_sale_v2_finish(r)
        \/ CreateRespond(r)
        \/ StartUpdate(r, {"a1"}, RepeatedPatches)
        \/ StartRpcUpdate(r, RepeatedPatches)
        \/ rpc_update_sale_v2_begin(r)
        \/ rpc_update_sale_v2_item(r)
        \/ rpc_update_sale_v2_finish(r)
        \/ UpdateRespond(r)
        \/ RpcReturn(r)

RepeatedSpec == Init /\ [][RepeatedNext]_vars

\* the item list of request r names some unit more than once
NamesUnitTwice(request) ==
    /\ request.op \in {"create", "rpc_create", "update", "rpc_update"}
    /\ \E i, j \in 1 .. Len(request.payload.items) :
          i # j /\ request.payload.items[i].stock_item_id
                   = request.payload.items[j].stock_item_id

\* the position of the first item that repeats an earlier one
SecondOccurrence(items) ==
    CHOOSE j \in 1 .. Len(items) :
        /\ \E i \in 1 .. j - 1 : items[i].stock_item_id = items[j].stock_item_id
        /\ \A k \in 1 .. j - 1 :
              \A i \in 1 .. k - 1 : items[i].stock_item_id # items[k].stock_item_id

\* C37: a create_sale or update_sale whose item list names the same stock unit
\* more than once never succeeds and leaves stock and sales unchanged: the HTTP
\* layer answers 400 validation_error without calling the engine, and the engine,
\* called directly, never gets past the second occurrence, where it fails with
\* the stock error because the unit is no longer available.
C37_RepeatedUnitNeverSucceeds ==
    [][\A r \in Reqs :
          NamesUnitTwice(req'[r]) =>
              /\ db' = db
              /\ req'[r].op \in {"create", "update"} =>
                    /\ pc'[r] = "done"
                    /\ resp'[r].status = 400
                    /\ resp'[r].body.error.code = "validation_error"
              /\ req'[r].op \in {"rpc_create", "rpc_update"} =>
                    /\ tx'[r].idx <= SecondOccurrence(req'[r].payload.items)
                    /\ tx'[r].result.error # "none"
                    /\ pc[r] \in {"create_item", "update_item"}
                       /\ tx[r].idx = SecondOccurrence(req[r].payload.items) =>
                          /\ pc'[r] = "rpc_done"
                          /\ tx'[r].result.error
                             = IF req[r].op = "rpc_create" THEN "stock_conflict"
                               ELSE "stock_unavailable"
                    /\ pc'[r] = "done" => resp'[r].body.error # "none"]_vars

\* a direct update whose list names the sale's own unit twice has failed at the
\* second occurrence, after the first occurrence claimed the unit again
C37_Witness ==
    \E r \in Reqs :
        /\ NamesUnitTwice(req[r])
        /\ req[r].op = "rpc_update"
        /\ pc[r] = "rpc_done"
        /\ tx[r].result.error = "stock_unavailable"
        /\ req[r].payload.items[1].stock_item_id \in ItemUnits(req[r].sale)

\* ------------------------------------------------- user administration
MaxUserChanges == 2

sale_tables == <<stock_items, sales, sale_items, warranties, sale_payments, audit_logs>>

ROLE_RANK == [seller |-> 1, admin |-> 2, owner |-> 3]

isManagedRole(role) == role \in {"seller", "admin", "owner"}

\* the id of the auth user with this email
UserIdOf(email) ==
    IF email = "mocho@gmail.com" THEN "mocho"
    ELSE IF email = "bruno@gmail.com" THEN "bruno"
    ELSE "t1"

\* authMiddleware, then requireRole(role): the answer that stops the request, or
\* NoResp when the handler runs
Gate(actor, role) ==
    IF actor \notin auth_users
    THEN [status |-> 401, body |-> makeError("unauthorized", "Invalid token")]
    ELSE IF profiles[actor] = NoProfile
    THEN [status |-> 403, body |-> makeError("forbidden", "Profile not found")]
    ELSE IF ~isManagedRole(profiles[actor].role)
    THEN [status |-> 403, body |-> makeError("forbidden", "Invalid profile role")]
    ELSE IF ROLE_RANK[profiles[actor].role] < ROLE_RANK[role]
    THEN [status |-> 403, body |-> makeError("forbidden", "Insufficient role")]
    ELSE NoResp

\* req.user, req.params.id and req.body of a request to the admin routers
AdminRequest(op, actor, id, body) ==
    [NoReq EXCEPT !.op = op, !.actor = actor,
                  !.payload = [user |-> [id |-> actor, role |-> profiles[actor].role],
                               id |-> id, body |-> body]]

\* bodies of POST /api/admin/users; a role outside the enum fails the schema
AdminCreateBodies ==
    [email : {"tmp@example.com"}, full_name : {"Temp"}, role : {"seller", "admin", "owner"}]

createSchema(body) == body.role \in {"seller", "admin"} /\ body.full_name # NoText

\* bodies of PATCH /api/admin/users/:id with one field; NoText is an absent field
AdminPatchBodies ==
    [role : {"seller", "admin", "owner"}, full_name : {NoText}]
    \cup [role : {NoText}, full_name : {"Renamed"}]

patchSchema(body) == body.role \in {NoText, "seller", "admin"}

\* the profile row the database holds for a new auth user once createUser has
\* returned: none, or a row with the default role or the role of user_metadata
NewUserProfiles(user_metadata) ==
    {NoProfile}
    \cup {[role |-> role, full_name |-> user_metadata.full_name] :
             role \in {"seller", user_metadata.role}}

\* POST /api/admin/users up to the call of auth.admin.createUser
StartAdminCreate(r, actors) ==
    /\ Idle(r)
    /\ Len(profile_audit_logs) < MaxUserChanges
    /\ \E actor \in actors, body \in AdminCreateBodies :
        LET request == AdminRequest("admin_create", actor, NoText, body)
            gate == Gate(actor, "admin")
        IN /\ req' = [req EXCEPT ![r] = request]
           /\ IF gate # NoResp
              THEN Reply(r, gate.status, gate.body)
              ELSE IF ~createSchema(body)
              THEN Reply(r, 400, makeError("validation_error", "Invalid user payload"))
              ELSE IF body.role = "admin" /\ request.payload.user.role # "owner"
              THEN Reply(r, 403, makeError("forbidden_role_change",
                                           "Only owner can promote users to admin"))
              ELSE /\ pc' = [pc EXCEPT ![r] = "create_user"]
                   /\ resp' = [resp EXCEPT ![r] = NoResp]
                   /\ UNCHANGED answered
    /\ UNCHANGED <<db, idempotency_keys, tx, hist>>

\* supabaseService.auth.admin.createUser
admin_create_user(r) ==
    /\ pc[r] = "create_user"
    /\ LET body == req[r].payload.body
           id == UserIdOf(body.email)
       IN IF id \in auth_users
          THEN /\ Reply(r, 400, makeError("user_create_failed", "Auth create failed"))
               /\ UNCHANGED db
          ELSE /\ auth_users' = auth_users \cup {id}
               /\ \E row \in NewUserProfiles([full_name |-> body.full_name, role |-> body.role]) :
                     profiles' = [profiles EXCEPT ![id] = row]
               /\ pc' = [pc EXCEPT ![r] = "create_sync"]
               /\ UNCHANGED <<sale_tables, profile_audit_logs, resp, answered>>
    /\ UNCHANGED <<idempotency_keys, req, tx, hist>>

\* the profile sync loop, the audit row and the answer
admin_create_sync(r) ==
    /\ pc[r] = "create_sync"
    /\ LET body == req[r].payload.body
           id == UserIdOf(body.email)
           after == [role |-> body.role, full_name |-> body.full_name]
       IN IF profiles[id] = NoProfile
          THEN /\ auth_users' = auth_users \ {id}
               /\ Reply(r, 400, makeError("profile_create_failed", "profile_not_ready"))
               /\ UNCHANGED <<profiles, profile_audit_logs>>
          ELSE /\ profiles' = [profiles EXCEPT ![id] = after]
               /\ profile_audit_logs' =
                     Append(profile_audit_logs,
                            [actor_user_id |-> req[r].payload.user.id, entity_id |-> id,
                             before_json |-> NoProfile, after_json |-> after,
                             source |-> "admin_users_create"])
               /\ Reply(r, 201, [user_id |-> id, role |-> body.role])
               /\ UNCHANGED auth_users
    /\ UNCHANGED <<sale_tables, idempotency_keys, req, tx, hist>>

\* PATCH /api/admin/users/:id up to the read of the target profile
StartAdminPatch(r, actors) ==
    /\ Idle(r)
    /\ Len(profile_audit_logs) < MaxUserChanges
    /\ \E actor \in actors, id \in UserIds, body \in AdminPatchBodies :
        LET request == AdminRequest("admin_patch", actor, id, body)
            gate == Gate(actor, "admin")
        IN /\ req' = [req EXCEPT ![r] = request]
           /\ IF gate # NoResp
              THEN Reply(r, gate.status, gate.body)
              ELSE IF ~patchSchema(body)
              THEN Reply(r, 400, makeError("validation_error", "Invalid patch payload"))
              ELSE /\ pc' = [pc EXCEPT ![r] = "patch_read"]
                   /\ resp' = [resp EXCEPT ![r] = NoResp]
                   /\ UNCHANGED answered
    /\ UNCHANGED <<db, idempotency_keys, tx, hist>>

\* the read of beforeProfile and the checks on the role change
admin_patch_read(r) ==
    /\ pc[r] = "patch_read"
    /\ LET beforeProfile == profiles[req[r].payload.id]
           desiredRole == req[r].payload.body.role
           actorRole == req[r].payload.user.role
           targetRole == beforeProfile.role
       IN IF beforeProfile = NoProfile
          THEN Reply(r, 404, makeError("not_found", "Profile not found")) /\ UNCHANGED tx
          ELSE IF ~isManagedRole(targetRole)
          THEN Reply(r, 409, makeError("protected_role", "Target profile role is protected"))
               /\ UNCHANGED tx
          ELSE IF targetRole = "owner" /\ desiredRole # NoText
          THEN Reply(r, 409, makeError("protected_role",
                                       "Owner role cannot be changed via this endpoint"))
               /\ UNCHANGED tx
          ELSE IF /\ req[r].payload.user.id = req[r].payload.id
                  /\ desiredRole # NoText
                  /\ ROLE_RANK[desiredRole] < ROLE_RANK[targetRole]
          THEN Reply(r, 403, makeError("forbidden_role_change",
                                       "You cannot self-demote your role"))
               /\ UNCHANGED tx
          ELSE IF desiredRole = "admin" /\ targetRole # "admin" /\ actorRole # "owner"
          THEN Reply(r, 403, makeError("forbidden_role_change",
                                       "Only owner can promote users to admin"))
               /\ UNCHANGED tx
          ELSE /\ tx' = [tx EXCEPT ![r].row = beforeProfile]
               /\ pc' = [pc EXCEPT ![r] = "patch_update"]
               /\ UNCHANGED <<resp, answered>>
    /\ UNCHANGED <<db, idempotency_keys, req, hist>>

\* the update of the profile row with parsed.data, the audit row and the answer
admin_patch_update(r) ==
    /\ pc[r] = "patch_update"
    /\ LET id == req[r].payload.id
           body == req[r].payload.body
           data == [role |-> IF body.role # NoText THEN body.role ELSE profiles[id].role,
                    full_name |-> IF body.full_name # NoText THEN body.full_name
                                  ELSE profiles[id].full_name]
       IN IF profiles[id] = NoProfile
          THEN /\ Reply(r, 400, makeError("profile_update_failed", "Profile update failed"))
               /\ UNCHANGED <<profiles, profile_audit_logs>>
          ELSE /\ profiles' = [profiles EXCEPT ![id] = data]
               /\ profile_audit_logs' =
                     Append(profile_audit_logs,
                            [actor_user_id |-> req[r].payload.user.id, entity_id |-> id,
                             before_json |-> tx[r].row, after_json |-> data,
                             source |-> "admin_users_patch"])
               /\ Reply(r, 200, [user_id |-> id, role |-> data.role])
    /\ tx' = [tx EXCEPT ![r] = NoTx]
    /\ UNCHANGED <<sale_tables, auth_users, idempotency_keys, req, hist>>

\* Bruno's entry stands for the three sellers of the list
DEFAULT_SEED_USERS ==
    <<[email |-> "bruno@gmail.com", full_name |-> "Bruno", role |-> "seller"],
      [email |-> "mocho@gmail.com", full_name |-> "Mocho", role |-> "admin"]>>

\* POST of the seed-users router up to the call of seedInitialUsers
StartSeedUsers(r, actors) ==
    /\ Idle(r)
    /\ \E actor \in actors, secret \in {"seed-secret", "other"} :
        LET request == AdminRequest("seed_users", actor, NoText, [x_seed_secret |-> secret])
            gate == Gate(actor, "admin")
        IN /\ req' = [req EXCEPT ![r] = request]
           /\ IF gate # NoResp
              THEN Reply(r, gate.status, gate.body) /\ UNCHANGED tx
              ELSE IF secret # "seed-secret"
              THEN Reply(r, 403, makeError("forbidden", "Invalid seed secret")) /\ UNCHANGED tx
              ELSE /\ pc' = [pc EXCEPT ![r] = "seed_auth"]
                   /\ tx' = [tx EXCEPT ![r].idx = 1]
                   /\ resp' = [resp EXCEPT ![r] = NoResp]
                   /\ UNCHANGED answered
    /\ UNCHANGED <<db, idempotency_keys, hist>>

\* getOrCreateAuthUser for the seed user the loop is at
getOrCreateAuthUser(r) ==
    /\ pc[r] = "seed_auth"
    /\ LET userSeed == DEFAULT_SEED_USERS[tx[r].idx]
           id == UserIdOf(userSeed.email)
       IN IF id \in auth_users
          THEN UNCHANGED <<auth_users, profiles>>
          ELSE /\ auth_users' = auth_users \cup {id}
               /\ \E row \in NewUserProfiles([full_name |-> NoText, role |-> "seller"]) :
                     profiles' = [profiles EXCEPT ![id] = row]
    /\ pc' = [pc EXCEPT ![r] = "seed_profile"]
    /\ UNCHANGED <<sale_tables, profile_audit_logs, idempotency_keys, req, tx, resp, hist,
                   answered>>

\* upsertProfile for the seed user the loop is at, then the next user or the summary
upsertProfile(r) ==
    /\ pc[r] = "seed_profile"
    /\ LET userSeed == DEFAULT_SEED_USERS[tx[r].idx]
           id == UserIdOf(userSeed.email)
       IN /\ profiles' = [profiles EXCEPT ![id] = [role |-> userSeed.role,
                                                   full_name |-> userSeed.full_name]]
          /\ IF tx[r].idx < Len(DEFAULT_SEED_USERS)
             THEN /\ tx' = [tx EXCEPT ![r].idx = @ + 1]
                  /\ pc' = [pc EXCEPT ![r] = "seed_auth"]
                  /\ UNCHANGED <<resp, answered>>
             ELSE /\ Reply(r, 200, [updated_profiles |-> Len(DEFAULT_SEED_USERS)])
                  /\ tx' = [tx EXCEPT ![r] = NoTx]
    /\ UNCHANGED <<sale_tables, auth_users, profile_audit_logs, idempotency_keys, req, hist>>

\* the accounts the clients log in with
Logins == {"mocho", "bruno"}

\* Two clients on the admin routers, interleaved at the handlers' database
\* calls: both patch profiles, the first also creates users and the second also
\* runs seed-users.
AdminNext ==
    \/ \E r \in Reqs :
          \/ StartAdminPatch(r, Logins)
          \/ admin_patch_read(r)
          \/ admin_patch_update(r)
    \/ StartAdminCreate("r1", Logins)
    \/ admin_create_user("r1")
    \/ admin_create_sync("r1")
    \/ StartSeedUsers("r2", Logins)
    \/ getOrCreateAuthUser("r2")
    \/ upsertProfile("r2")

AdminSpec == Init /\ [][AdminNext]_vars

\* client r takes the step
Acting(r) == pc'[r] # pc[r] \/ req'[r] # req[r]

\* a profile that is owner before the step is owner after it
OwnerKept == \A u \in UserIds : profiles[u].role = "owner" => profiles'[u].role = "owner"

\* no profile becomes owner in the step
NoOwnerProduced == \A u \in UserIds : profiles'[u].role = "owner" => profiles[u].role = "owner"

\* a PATCH with a role that reads an owner's profile is answered 409
\* protected_role and changes nothing
OwnerPatchRefused ==
    \A r \in Reqs :
        /\ pc[r] = "patch_read" /\ Acting(r)
        /\ profiles[req[r].payload.id].role = "owner"
        /\ req[r].payload.body.role # NoText
        => /\ pc'[r] = "done"
           /\ resp'[r].status = 409
           /\ resp'[r].body.error.code = "protected_role"
           /\ accounts' = accounts

\* C38: a profile whose role is owner keeps that role under every
\* user-administration operation: a PATCH with a role on it is answered 409
\* protected_role and changes nothing, user creation neither produces nor alters
\* an owner, and seed-users leaves the role of an existing owner as it is.
C38_OwnerKeepsRole == [][OwnerKept /\ NoOwnerProduced /\ OwnerPatchRefused]_vars

\* some profile gains the admin role in the step
GainsAdmin(u) == profiles[u].role # "admin" /\ profiles'[u].role = "admin"

\* the request of client r lowers the role of the user who makes it
LowersOwnRole(r) ==
    /\ isManagedRole(profiles'[req[r].actor].role)
    /\ ROLE_RANK[profiles'[req[r].actor].role] < ROLE_RANK[profiles[req[r].actor].role]

\* the step is taken by a user-creation or PATCH request
RoleRequestStep(r) == Acting(r) /\ req[r].op \in {"admin_create", "admin_patch"} /\ req'[r] = req[r]

\* C39: role changes respect rank. No user-creation or PATCH request made by an
\* actor whose role is not owner makes any profile gain the admin role; no such
\* request lowers the role of the user who makes it, and a PATCH that would
\* lower the acting admin's own role is answered 403 forbidden_role_change; an
\* owner's PATCH of a seller to admin is let through and, when it succeeds, the
\* profile is admin.
C39_RoleChangesRespectRank ==
    [][\A r \in Reqs :
          RoleRequestStep(r) =>
              /\ \A u \in UserIds : GainsAdmin(u) => req[r].payload.user.role = "owner"
              /\ ~LowersOwnRole(r)
              /\ /\ pc[r] = "patch_read"
                 /\ req[r].payload.id = req[r].actor
                 /\ profiles[req[r].actor].role = "admin"
                 /\ req[r].payload.body.role = "seller"
                 => /\ resp'[r].status = 403
                    /\ resp'[r].body.error.code = "forbidden_role_change"
              /\ /\ pc[r] = "patch_read"
                 /\ req[r].payload.user.role = "owner"
                 /\ profiles[req[r].payload.id].role = "seller"
                 /\ req[r].payload.body.role = "admin"
                 => pc'[r] = "patch_update"
              /\ /\ pc[r] = "patch_update"
                 /\ req[r].payload.body.role = "admin"
                 /\ resp'[r].status = 200
                 => profiles'[req[r].payload.id].role = "admin"]_vars

====
